---- MODULE Spec2Model ----
(***************************************************************************)
(* Task manager: the task store and its HTTP handlers, the Task and        *)
(* Category mongoose models with their pre-save hooks, the analytics       *)
(* routes, and the three scheduled jobs of the notification service.       *)
(*                                                                         *)
(* Time is counted in minutes from 00:00 of day 0 (09:00 is 540).  A       *)
(* field that is null/undefined in a document is Null; a date is the       *)
(* one-element tuple <<minutes>>.  A request body maps each key to Absent  *)
(* (key not sent) or to <<value>>; an ISO-8601 date string is the tuple    *)
(* <<hours, minutes>>.                                                     *)
(***************************************************************************)
EXTENDS Integers, Sequences, FiniteSets, TLC

VARIABLES now, users, transporter, tasks, res, scanPc, scanQueue, lastMail,
          armed, cats, creq, nextCat,
          scheduled, jobs, jobLog, lastSent, overview, resTasks,
          auth, storage, calls,
          lastScan, ovReq, listing, insights

\* the scheduler's registrations, the daily and weekly jobs, the last error a
\* job raised, the last digest or summary, and the last response bodies
jobVars == <<scheduled, jobs, jobLog, lastSent, overview, resTasks>>

\* the web client: the state of the auth reducer, localStorage, and the
\* requests of the provider that are in flight
clientVars == <<auth, storage, calls>>

\* the instant of the last reminder scan, an overview request between its
\* queries, and the response bodies of the task list and of the insights
serverVars == <<lastScan, ovReq, listing, insights>>

vars == <<now, users, transporter, tasks, res, scanPc, scanQueue, lastMail,
          armed, cats, creq, nextCat, jobVars, clientVars, serverVars>>

----------------------------------------------------------------------------
(* Bounds *)

MaxTasks == 1

MaxSubtasks == 1

MaxCats == 2

----------------------------------------------------------------------------
(* Values *)

Null == <<>>

Absent == <<>>

Users == {"u1", "u2"}

TaskIds == 1..MaxTasks

CatIds == 1..MaxCats

CatNames == {"A", "B"}

\* category requests that can be in flight at the same time
Requests == {1, 2}

\* wall-clock instants the model's clock visits (08:40, 08:45, 08:50, 09:00, 09:01)
Instants == {520, 525, 530, 540, 541}

MsPerMinute == 60 * 1000

\* Date.parse of an ISO string <<hours, minutes>>, as minutes of the day
DateParse(iso) == iso[1] * 60 + iso[2]

\* Date.prototype.getTime: milliseconds
GetTime(d) == d * MsPerMinute

\* new Date(milliseconds)
NewDate(ms) == ms \div MsPerMinute

\* mongoose casts a date string (or null) assigned to a Date path
CastDate(v) == IF v = Null THEN Null ELSE <<DateParse(v)>>

Has(body, key) == body[key] # Absent

Val(body, key) == body[key][1]

----------------------------------------------------------------------------
(* Task model *)

\* variant: the offset loses a factor of 60 (one minute before the due date)
ReminderForOneMinute(isoDue) == <<NewDate(GetTime(DateParse(isoDue)) - 60 * 1000)>>

\* reminder one hour before the due date
ReminderFor(isoDue) == <<NewDate(GetTime(DateParse(isoDue)) - 60 * 60 * 1000)>>

\* the value a body key takes once it is assigned to the document's path
CastTaskField(key, v) ==
    IF key \in {"dueDate", "reminderDate", "completedAt"} THEN CastDate(v) ELSE v

TaskBodyKeys == {"completed", "completedAt", "dueDate", "reminderDate", "category"}

\* Object.keys(req.body).forEach(key => task[key] = req.body[key])
AssignBody(doc, body) ==
    [f \in DOMAIN doc |->
        IF f \in TaskBodyKeys /\ Has(body, f) THEN CastTaskField(f, Val(body, f))
        ELSE doc[f]]

\* paths mongoose marks modified: those whose value differs from the loaded one
ModifiedPaths(old, new) == {f \in DOMAIN old : old[f] # new[f]}

\* taskSchema.pre('save')
TaskPreSave(doc, modified) ==
    IF "completed" \in modified
    THEN [doc EXCEPT !.completedAt = IF doc.completed THEN <<now>> ELSE Null]
    ELSE doc

\* schema defaults of a new Task document
NewTaskDoc(u) ==
    [userId |-> u, completed |-> FALSE, completedAt |-> Null, dueDate |-> Null,
     reminderDate |-> Null, category |-> "", order |-> 0, subtasks |-> <<>>]

----------------------------------------------------------------------------
(* Task routes *)

\* a request body of POST /api/tasks or PUT /api/tasks/:id with these keys
TaskBody(completed, completedAt, dueDate, reminderDate, category) ==
    [completed |-> completed, completedAt |-> completedAt, dueDate |-> dueDate,
     reminderDate |-> reminderDate, category |-> category]

Due1000 == << <<10, 0>> >>

Rem0845 == << <<8, 45>> >>

At0840 == << <<8, 40>> >>

Work == <<"Work">>

\* bodies sent to the task store
StoreBodies ==
    {TaskBody(Absent, Absent, Absent, Absent, Work),
     TaskBody(Absent, Absent, Due1000, Absent, Work),
     TaskBody(Absent, Absent, Due1000, Rem0845, Work),
     TaskBody(<<TRUE>>, Absent, Absent, Absent, Work),
     TaskBody(Absent, At0840, Absent, Absent, Work),
     TaskBody(Absent, Absent, Absent, Absent, Absent),
     TaskBody(<<TRUE>>, Absent, Absent, Absent, Absent),
     TaskBody(<<FALSE>>, Absent, Absent, Absent, Absent),
     TaskBody(Absent, At0840, Absent, Absent, Absent),
     TaskBody(Absent, <<Null>>, Absent, Absent, Absent),
     TaskBody(Absent, Absent, Due1000, Rem0845, Absent)}

\* bodies sent while the reminder scan is observed
ScanBodies ==
    {TaskBody(Absent, Absent, Due1000, Absent, Work),
     TaskBody(Absent, Absent, Absent, Rem0845, Work),
     TaskBody(<<TRUE>>, Absent, Absent, Absent, Absent),
     TaskBody(Absent, Absent, Due1000, Absent, Absent)}

\* a new document gets an id no document has
FreshTaskId == CHOOSE t \in TaskIds \ DOMAIN tasks : \A o \in TaskIds \ DOMAIN tasks : t <= o

\* variant: the lookup leaves out the userId condition
FindTaskAnyUser(u, id) == id \in DOMAIN tasks

\* Task.findOne({ _id: id, userId: u })
FindTask(u, id) == id \in DOMAIN tasks /\ tasks[id].userId = u

\* the reminder a write leaves armed: a non-null reminderDate written by the request
Arm(id, old, new, body) ==
    IF (Has(body, "dueDate") \/ Has(body, "reminderDate")) /\ new.reminderDate # Null
    THEN [armed EXCEPT ![id] = TRUE]
    ELSE armed

\* router.post('/') of the task routes
CreateTask(u, body) ==
    /\ TaskIds \ DOMAIN tasks # {}
    /\ IF ~Has(body, "category")
       THEN /\ res' = 400
            /\ UNCHANGED <<tasks, armed>>
       ELSE LET taskData == AssignBody(NewTaskDoc(u), body)
                withReminder == IF Has(body, "dueDate")
                                THEN [taskData EXCEPT !.reminderDate = ReminderFor(Val(body, "dueDate"))]
                                ELSE taskData
                modified == {f \in TaskBodyKeys : Has(body, f)}
                doc == TaskPreSave(withReminder, modified)
                id == FreshTaskId
            IN  /\ tasks' = [t \in DOMAIN tasks \cup {id} |-> IF t = id THEN doc ELSE tasks[t]]
                /\ armed' = Arm(id, NewTaskDoc(u), doc, body)
                /\ res' = 201
    /\ UNCHANGED <<now, users, transporter, scanPc, scanQueue, lastMail, cats, creq, nextCat, jobVars, clientVars, serverVars>>

\* router.put('/:id') of the task routes
UpdateTask(u, id, body) ==
    /\ IF ~FindTask(u, id)
       THEN /\ res' = 404
            /\ UNCHANGED <<tasks, armed>>
       ELSE LET old == tasks[id]
                assigned == AssignBody(old, body)
                withReminder == IF Has(body, "dueDate")
                                THEN [assigned EXCEPT !.reminderDate = ReminderFor(Val(body, "dueDate"))]
                                ELSE assigned
                doc == TaskPreSave(withReminder, ModifiedPaths(old, withReminder))
            IN  /\ tasks' = [tasks EXCEPT ![id] = doc]
                /\ armed' = Arm(id, old, doc, body)
                /\ res' = 200
    /\ UNCHANGED <<now, users, transporter, scanPc, scanQueue, lastMail, cats, creq, nextCat, jobVars, clientVars, serverVars>>

\* task.save() of a loaded document whose subtasks were changed
SaveSubtasks(id, subs) ==
    LET old == tasks[id]
        new == [old EXCEPT !.subtasks = subs]
    IN  tasks' = [tasks EXCEPT ![id] = TaskPreSave(new, ModifiedPaths(old, new))]

\* task.subtasks.pull(subtaskId): the array without that subdocument
Pull(subs, sid) ==
    [i \in 1..(Len(subs) - (IF sid \in DOMAIN subs THEN 1 ELSE 0)) |->
        IF sid \in DOMAIN subs /\ i >= sid THEN subs[i + 1] ELSE subs[i]]

\* router.post('/:id/subtasks')
AddSubtask(u, id) ==
    /\ IF ~FindTask(u, id)
       THEN /\ res' = 404
            /\ UNCHANGED tasks
       ELSE /\ Len(tasks[id].subtasks) < MaxSubtasks
            /\ SaveSubtasks(id, Append(tasks[id].subtasks, [completed |-> FALSE]))
            /\ res' = 201
    /\ UNCHANGED <<now, users, transporter, scanPc, scanQueue, lastMail, armed, cats, creq, nextCat, jobVars, clientVars, serverVars>>

\* router.put('/:id/subtasks/:subtaskId')
UpdateSubtask(u, id, sid, body) ==
    /\ IF ~FindTask(u, id) \/ sid \notin DOMAIN tasks[id].subtasks
       THEN /\ res' = 404
            /\ UNCHANGED tasks
       ELSE /\ SaveSubtasks(id, [tasks[id].subtasks EXCEPT ![sid].completed =
                                    IF Has(body, "completed") THEN Val(body, "completed") ELSE @])
            /\ res' = 200
    /\ UNCHANGED <<now, users, transporter, scanPc, scanQueue, lastMail, armed, cats, creq, nextCat, jobVars, clientVars, serverVars>>

\* router.delete('/:id/subtasks/:subtaskId')
DeleteSubtask(u, id, sid) ==
    /\ IF ~FindTask(u, id)
       THEN /\ res' = 404
            /\ UNCHANGED tasks
       ELSE /\ SaveSubtasks(id, Pull(tasks[id].subtasks, sid))
            /\ res' = 200
    /\ UNCHANGED <<now, users, transporter, scanPc, scanQueue, lastMail, armed, cats, creq, nextCat, jobVars, clientVars, serverVars>>

\* routes of the task router that answer PUT, in registration order; a path
\* is its sequence of segments and ":" stands for a parameter segment
TaskPutRoutes == << <<":">>, <<":", "subtasks", ":">>, <<"reorder">> >>

\* express matches a route when every segment is equal or is a parameter
RouteMatches(route, path) ==
    /\ Len(route) = Len(path)
    /\ \A i \in DOMAIN route : route[i] = ":" \/ route[i] = path[i]

\* the first registered route that matches handles the request
FirstMatch(routes, path) ==
    CHOOSE i \in DOMAIN routes :
        /\ RouteMatches(routes[i], path)
        /\ \A j \in DOMAIN routes : RouteMatches(routes[j], path) => i <= j

\* the ids listed by a reorder request
ReorderLists == {ids \in UNION {[1..n -> TaskIds] : n \in 1..MaxTasks} :
                    \A i, j \in DOMAIN ids : i # j => ids[i] # ids[j]}

\* findOneAndUpdate({ _id: ids[i], userId: u }, { order: i }) for each i (0-based)
Reordered(u, ids) ==
    [t \in DOMAIN tasks |->
        IF tasks[t].userId = u /\ \E i \in DOMAIN ids : ids[i] = t
        THEN [tasks[t] EXCEPT !.order = (CHOOSE i \in DOMAIN ids : ids[i] = t) - 1]
        ELSE tasks[t]]

\* PUT /api/tasks/reorder: handled by the first matching route; '/:id' looks
\* up the id "reorder", the cast to ObjectId throws and the catch answers 500
PutTasksReorder(u, ids) ==
    /\ IF TaskPutRoutes[FirstMatch(TaskPutRoutes, <<"reorder">>)] = <<"reorder">>
       THEN /\ tasks' = Reordered(u, ids)
            /\ res' = 200
       ELSE /\ res' = 500
            /\ UNCHANGED tasks
    /\ UNCHANGED <<now, users, transporter, scanPc, scanQueue, lastMail, armed, cats, creq, nextCat, jobVars, clientVars, serverVars>>

\* router.get('/:id') of the task routes: the response body holds the task
GetTask(u, id) ==
    /\ IF ~FindTask(u, id)
       THEN /\ res' = 404
            /\ resTasks' = {}
       ELSE /\ res' = 200
            /\ resTasks' = {id}
    /\ UNCHANGED <<now, users, transporter, tasks, scanPc, scanQueue, lastMail, armed, cats, creq, nextCat, clientVars, serverVars>>
    /\ UNCHANGED <<scheduled, jobs, jobLog, lastSent, overview>>

\* router.get('/') of the task routes with the completed filter of the query
\* string ('true', 'false' or not given) and the default page of 50
ListTasks(u, completed) ==
    /\ resTasks' = {t \in DOMAIN tasks :
                       /\ tasks[t].userId = u
                       /\ completed # Absent => tasks[t].completed = (completed[1] = "true")}
    /\ res' = 200
    /\ UNCHANGED <<now, users, transporter, tasks, scanPc, scanQueue, lastMail, armed, cats, creq, nextCat, clientVars, serverVars>>
    /\ UNCHANGED <<scheduled, jobs, jobLog, lastSent, overview>>

\* router.put('/:id') of the task routes with the body { userId: owner }: the
\* key is assigned like any other and saved
UpdateTaskOwner(u, id, owner) ==
    /\ IF ~FindTask(u, id)
       THEN /\ res' = 404
            /\ resTasks' = {}
            /\ UNCHANGED tasks
       ELSE /\ tasks' = [tasks EXCEPT ![id].userId = owner]
            /\ res' = 200
            /\ resTasks' = {id}
    /\ UNCHANGED <<now, users, transporter, scanPc, scanQueue, lastMail, armed, cats, creq, nextCat, clientVars, serverVars>>
    /\ UNCHANGED <<scheduled, jobs, jobLog, lastSent, overview>>

\* router.delete('/:id') of the task routes: Task.findOneAndDelete({ _id, userId })
DeleteTask(u, id) ==
    /\ IF ~FindTask(u, id)
       THEN /\ res' = 404
            /\ UNCHANGED <<tasks, armed>>
       ELSE /\ tasks' = [t \in DOMAIN tasks \ {id} |-> tasks[t]]
            /\ armed' = [armed EXCEPT ![id] = FALSE]
            /\ res' = 200
    /\ resTasks' = {}
    /\ UNCHANGED <<now, users, transporter, scanPc, scanQueue, lastMail, cats, creq, nextCat, clientVars, serverVars>>
    /\ UNCHANGED <<scheduled, jobs, jobLog, lastSent, overview>>

----------------------------------------------------------------------------
(* Notification service: reminder scan *)

ReminderWindowMs == 15 * 60 * 1000

\* variant: the upper bound of the window is exclusive ($lt)
TasksToRemindExclusive ==
    LET reminderWindow == NewDate(GetTime(now) + ReminderWindowMs)
    IN  {t \in DOMAIN tasks :
            /\ tasks[t].completed = FALSE
            /\ tasks[t].reminderDate # Null
            /\ tasks[t].reminderDate[1] >= now
            /\ tasks[t].reminderDate[1] < reminderWindow}

\* Task.find({ completed: false, reminderDate: { $gte: now, $lte: reminderWindow } })
\* a comparison operator never matches a null or missing field
TasksToRemind ==
    LET reminderWindow == NewDate(GetTime(now) + ReminderWindowMs)
    IN  {t \in DOMAIN tasks :
            /\ tasks[t].completed = FALSE
            /\ tasks[t].reminderDate # Null
            /\ tasks[t].reminderDate[1] >= now
            /\ tasks[t].reminderDate[1] <= reminderWindow}

\* the documents of a query result, in id order
RECURSIVE AsQueue(_)
AsQueue(S) ==
    IF S = {} THEN <<>>
    ELSE LET t == CHOOSE x \in S : \A y \in S : x <= y
         IN  <<[id |-> t, userId |-> tasks[t].userId,
                emailNotifications |-> users[tasks[t].userId].emailNotifications]>>
             \o AsQueue(S \ {t})

\* checkAndSendReminders up to the query: the selected tasks, owner populated
ScanStart ==
    /\ scanPc = "idle"
    /\ scanQueue' = AsQueue(TasksToRemind)
    /\ scanPc' = IF TasksToRemind = {} THEN "idle" ELSE "loop"
    /\ UNCHANGED <<now, users, transporter, tasks, res, lastMail, armed, cats, creq, nextCat, jobVars, clientVars, serverVars>>

\* variant: the function does not test this.transporter; sendMail of a null
\* transporter throws inside the try and is logged as a failed send
SendTaskReminderNoTransporterCheck(emailNotifications, sent) ==
    IF ~emailNotifications THEN "skipped"
    ELSE IF transporter = "ready" /\ sent THEN "delivered" ELSE "failed"

\* sendTaskReminder: what happens to the message
SendTaskReminder(emailNotifications, sent) ==
    IF transporter = "none" \/ ~emailNotifications THEN "skipped"
    ELSE IF sent THEN "delivered" ELSE "failed"

\* variant: the loop does not test the owner's preference
ScanStepNoPreferenceCheck(sent) ==
    /\ scanPc = "loop"
    /\ LET task == Head(scanQueue)
       IN  /\ lastMail' = IF SendTaskReminder(task.emailNotifications, sent) = "skipped"
                          THEN lastMail
                          ELSE <<[task |-> task.id, to |-> task.userId,
                                  outcome |-> SendTaskReminder(task.emailNotifications, sent)]>>
           /\ tasks' = [tasks EXCEPT ![task.id].reminderDate = Null]
           /\ armed' = [armed EXCEPT ![task.id] = FALSE]
    /\ scanQueue' = Tail(scanQueue)
    /\ scanPc' = IF Len(scanQueue) = 1 THEN "idle" ELSE "loop"
    /\ UNCHANGED <<now, users, transporter, res, cats, creq, nextCat, jobVars, clientVars, serverVars>>

\* variant: the loop sends but does not clear and save the reminderDate
ScanStepNoClear(sent) ==
    /\ scanPc = "loop"
    /\ LET task == Head(scanQueue)
       IN  IF task.emailNotifications
           THEN /\ lastMail' = <<[task |-> task.id, to |-> task.userId,
                                  outcome |-> SendTaskReminder(task.emailNotifications, sent)]>>
                /\ armed' = [armed EXCEPT ![task.id] = FALSE]
                /\ UNCHANGED tasks
           ELSE UNCHANGED <<lastMail, tasks, armed>>
    /\ scanQueue' = Tail(scanQueue)
    /\ scanPc' = IF Len(scanQueue) = 1 THEN "idle" ELSE "loop"
    /\ UNCHANGED <<now, users, transporter, res, cats, creq, nextCat, jobVars, clientVars, serverVars>>

\* one pass of the loop of checkAndSendReminders; sent is the channel's answer
ScanStep(sent) ==
    /\ scanPc = "loop"
    /\ LET task == Head(scanQueue)
       IN  IF task.emailNotifications
           THEN /\ lastMail' = <<[task |-> task.id, to |-> task.userId,
                                  outcome |-> SendTaskReminder(task.emailNotifications, sent)]>>
                /\ tasks' = [tasks EXCEPT ![task.id].reminderDate = Null]
                /\ armed' = [armed EXCEPT ![task.id] = FALSE]
           ELSE UNCHANGED <<lastMail, tasks, armed>>
    /\ scanQueue' = Tail(scanQueue)
    /\ scanPc' = IF Len(scanQueue) = 1 THEN "idle" ELSE "loop"
    /\ UNCHANGED <<now, users, transporter, res, cats, creq, nextCat, jobVars, clientVars, serverVars>>

\* wall-clock time passes
Tick(instants) ==
    /\ \E t \in instants : t > now /\ now' = t
    /\ UNCHANGED <<users, transporter, tasks, res, scanPc, scanQueue, lastMail, armed, cats, creq, nextCat, jobVars, clientVars, serverVars>>

\* the callback of cron.schedule('*/15 * * * *'): checkAndSendReminders up to
\* the query, at a minute that is a multiple of 15, once
CronScan ==
    /\ "scan" \in scheduled
    /\ now % 15 = 0
    /\ lastScan # <<now>>
    /\ scanPc = "idle"
    /\ scanQueue' = AsQueue(TasksToRemind)
    /\ scanPc' = IF TasksToRemind = {} THEN "idle" ELSE "loop"
    /\ lastScan' = <<now>>
    /\ UNCHANGED <<now, users, transporter, tasks, res, lastMail, armed, cats, creq, nextCat, jobVars, clientVars>>
    /\ UNCHANGED <<ovReq, listing, insights>>

\* wall-clock time passes to the next of the instants; the scan of a minute
\* that is a multiple of 15 has run to its end before the minute is over
CronTick(instants) ==
    /\ scanPc = "idle"
    /\ now % 15 = 0 => lastScan = <<now>>
    /\ \E t \in instants : /\ t > now
                            /\ \A o \in instants : o > now => t <= o
                            /\ now' = t
    /\ UNCHANGED <<users, transporter, tasks, res, scanPc, scanQueue, lastMail, armed, cats, creq, nextCat, jobVars, clientVars, serverVars>>

----------------------------------------------------------------------------
(* Category model and routes.  A request runs as a sequence of store         *)
(* operations; each store operation is atomic and other requests can run     *)
(* between two of them.  A step performs one store operation and the code    *)
(* that follows it up to the next one.                                       *)

NoCat == [userId |-> "", name |-> "", isDefault |-> FALSE, order |-> 0]

\* the paths of a loaded category a request body can change
Loaded(doc) == [doc EXCEPT !.order = 0]

NoCatBody == [name |-> Absent, isDefault |-> Absent]

IdleReq == [pc |-> "idle", user |-> "", id |-> 0, body |-> NoCatBody, doc |-> NoCat, wrote |-> FALSE]

\* request bodies of POST /api/categories and PUT /api/categories/:id
CatBodies == [name : {Absent} \cup {<<n>> : n \in CatNames}, isDefault : {Absent, <<TRUE>>, <<FALSE>>}]

\* Category.findOne({ userId: u, name: name, _id: { $ne: except } })
NameTaken(u, name, except) ==
    \E c \in DOMAIN cats : c # except /\ cats[c].userId = u /\ cats[c].name = name

\* categorySchema.index({ userId: 1, name: 1 }, { unique: true }): a write that
\* would give two documents the same key fails with a duplicate-key error
DuplicateKey(u, name, except) == NameTaken(u, name, except)

\* Category.findOne({ userId: u }).sort({ order: -1 }): order of the new category
NextOrder(u) ==
    LET own == {c \in DOMAIN cats : cats[c].userId = u}
    IN  IF own = {} THEN 0
        ELSE cats[CHOOSE c \in own : \A o \in own : cats[c].order >= cats[o].order].order + 1

\* updateMany({ userId: u, _id: { $ne: except } }, { $set: { isDefault: false } })
ClearOtherDefaults(u, except) ==
    [c \in DOMAIN cats |->
        IF cats[c].userId = u /\ c # except THEN [cats[c] EXCEPT !.isDefault = FALSE]
        ELSE cats[c]]

\* the loaded document after Object.keys(req.body).forEach(key => category[key] = ...)
AssignCatBody(doc, body) ==
    [doc EXCEPT !.name = IF Has(body, "name") THEN Val(body, "name") ELSE @,
                !.isDefault = IF Has(body, "isDefault") THEN Val(body, "isDefault") ELSE @]

\* categorySchema.pre('save'): does the hook clear the other defaults
HookClears(doc, modified) == doc.isDefault /\ "isDefault" \in modified

Finish(r, status) ==
    /\ creq' = [creq EXCEPT ![r] = IdleReq]
    /\ res' = status

CatFrame ==
    UNCHANGED <<now, users, transporter, tasks, scanPc, scanQueue, lastMail, armed, jobVars,
                clientVars, serverVars>>

\* router.post('/') of the category routes, up to the existence check
CreateCategory(r, u, body) ==
    /\ creq[r].pc = "idle"
    /\ IF ~Has(body, "name") \/ NameTaken(u, Val(body, "name"), 0)
       THEN /\ res' = 400
            /\ UNCHANGED creq
       ELSE /\ creq' = [creq EXCEPT ![r] = [IdleReq EXCEPT !.pc = "c_order", !.user = u, !.body = body]]
            /\ UNCHANGED res
    /\ UNCHANGED <<cats, nextCat>>
    /\ CatFrame

\* create: the order query, new Category({...}) and the start of save()
CreateOrder(r) ==
    /\ creq[r].pc = "c_order"
    /\ LET body == creq[r].body
           doc == [userId |-> creq[r].user, name |-> Val(body, "name"),
                   isDefault |-> Has(body, "isDefault") /\ Val(body, "isDefault"),
                   order |-> NextOrder(creq[r].user)]
       IN  creq' = [creq EXCEPT ![r].doc = doc,
                                ![r].pc = IF HookClears(doc, {"name", "isDefault", "order"})
                                          THEN "c_hook" ELSE "c_insert"]
    /\ UNCHANGED <<cats, nextCat, res>>
    /\ CatFrame

\* create: the pre-save hook's updateMany
CreateHook(r) ==
    /\ creq[r].pc = "c_hook"
    /\ cats' = ClearOtherDefaults(creq[r].doc.userId, 0)
    /\ creq' = [creq EXCEPT ![r].pc = "c_insert", ![r].wrote = (cats' # cats)]
    /\ UNCHANGED <<nextCat, res>>
    /\ CatFrame

\* create: the insert of the new document
CreateInsert(r) ==
    /\ creq[r].pc = "c_insert"
    /\ IF DuplicateKey(creq[r].doc.userId, creq[r].doc.name, 0)
       THEN /\ Finish(r, 500)
            /\ UNCHANGED <<cats, nextCat>>
       ELSE /\ nextCat <= MaxCats
            /\ cats' = [c \in DOMAIN cats \cup {nextCat} |->
                           IF c = nextCat THEN creq[r].doc ELSE cats[c]]
            /\ nextCat' = nextCat + 1
            /\ Finish(r, 201)
    /\ CatFrame

\* update: where the handler goes once the name is known to be free
AfterNameCheck(old, body) ==
    LET new == AssignCatBody(old, body)
    IN  IF HookClears(new, {f \in DOMAIN old : old[f] # new[f]}) THEN "u_hook" ELSE "u_write"

\* router.put('/:id') of the category routes, up to the lookup
UpdateCategory(r, u, id, body) ==
    /\ creq[r].pc = "idle"
    /\ IF ~(id \in DOMAIN cats /\ cats[id].userId = u)
       THEN /\ res' = 404
            /\ UNCHANGED creq
       ELSE /\ creq' = [creq EXCEPT ![r] =
                          [IdleReq EXCEPT !.user = u, !.id = id, !.body = body, !.doc = Loaded(cats[id]),
                                          !.pc = IF Has(body, "name") /\ Val(body, "name") # cats[id].name
                                                 THEN "u_check" ELSE AfterNameCheck(cats[id], body)]]
            /\ UNCHANGED res
    /\ UNCHANGED <<cats, nextCat>>
    /\ CatFrame

\* update: the existence check of the new name
UpdateCheck(r) ==
    /\ creq[r].pc = "u_check"
    /\ IF NameTaken(creq[r].user, Val(creq[r].body, "name"), creq[r].id)
       THEN Finish(r, 400)
       ELSE /\ creq' = [creq EXCEPT ![r].pc = AfterNameCheck(creq[r].doc, creq[r].body)]
            /\ UNCHANGED res
    /\ UNCHANGED <<cats, nextCat>>
    /\ CatFrame

\* update: the pre-save hook's updateMany
UpdateHook(r) ==
    /\ creq[r].pc = "u_hook"
    /\ cats' = ClearOtherDefaults(creq[r].doc.userId, creq[r].id)
    /\ creq' = [creq EXCEPT ![r].pc = "u_write", ![r].wrote = (cats' # cats)]
    /\ UNCHANGED <<nextCat, res>>
    /\ CatFrame

\* update: the write of the modified paths of the document
UpdateWrite(r) ==
    /\ creq[r].pc = "u_write"
    /\ LET old == creq[r].doc
           new == AssignCatBody(old, creq[r].body)
           modified == {f \in DOMAIN old : old[f] # new[f]}
           id == creq[r].id
       IN  IF modified = {}
           THEN /\ Finish(r, 200)
                /\ UNCHANGED cats
           ELSE IF id \notin DOMAIN cats \/ ("name" \in modified /\ DuplicateKey(new.userId, new.name, id))
           THEN /\ Finish(r, 500)
                /\ UNCHANGED cats
           ELSE /\ cats' = [cats EXCEPT ![id] =
                              [f \in DOMAIN old |-> IF f \in modified THEN new[f] ELSE cats[id][f]]]
                /\ Finish(r, 200)
    /\ UNCHANGED nextCat
    /\ CatFrame

\* router.delete('/:id') of the category routes, up to the lookup
DeleteCategory(r, u, id) ==
    /\ creq[r].pc = "idle"
    /\ IF ~(id \in DOMAIN cats /\ cats[id].userId = u)
       THEN /\ res' = 404
            /\ UNCHANGED creq
       ELSE /\ creq' = [creq EXCEPT ![r] = [IdleReq EXCEPT !.pc = "d_count", !.user = u, !.id = id,
                                                             !.doc = Loaded(cats[id])]]
            /\ UNCHANGED res
    /\ UNCHANGED <<cats, nextCat>>
    /\ CatFrame

\* variant: the count leaves the owner out of the filter
TasksInCategoryAnyUser(u, name) ==
    Cardinality({t \in DOMAIN tasks : tasks[t].category = name})

\* Task.countDocuments({ userId: u, category: name })
TasksInCategory(u, name) ==
    Cardinality({t \in DOMAIN tasks : tasks[t].userId = u /\ tasks[t].category = name})

\* delete: the count of the tasks in the category
DeleteCount(r) ==
    /\ creq[r].pc = "d_count"
    /\ IF TasksInCategory(creq[r].user, creq[r].doc.name) > 0
       THEN Finish(r, 400)
       ELSE /\ creq' = [creq EXCEPT ![r].pc = "d_remove"]
            /\ UNCHANGED res
    /\ UNCHANGED <<cats, nextCat>>
    /\ CatFrame

\* delete: Category.findByIdAndDelete(id)
DeleteRemove(r) ==
    /\ creq[r].pc = "d_remove"
    /\ cats' = [c \in DOMAIN cats \ {creq[r].id} |-> cats[c]]
    /\ Finish(r, 200)
    /\ UNCHANGED nextCat
    /\ CatFrame

----------------------------------------------------------------------------
(* Notification service: construction, and the failure paths of the jobs.    *)
(* A date after the first day counts on in minutes: minute m of day d is     *)
(* d * 1440 + m.  The server's time zone is UTC.                             *)

MinutesPerDay == 24 * 60

\* initializeEmailTransporter: no transporter unless the mail credentials are set
InitializeEmailTransporter(credentials) == IF ~credentials THEN "none" ELSE "ready"

\* startReminderScheduler: the three cron registrations
StartReminderScheduler == {"scan", "daily", "weekly"}

\* a job that is not running; bound is the date its queries compare with and
\* started the instant of its run
IdleJob == [pc |-> "idle", queue |-> <<>>, bound |-> 0, started |-> 0]

NoStats == [completedTasks |-> 0, completionRate |-> 0, streak |-> 0]

\* variant: the job has no try/catch; the rejection of the scheduled callback
\* is unhandled and ends the process
OnJobErrorUnhandled(job) ==
    [log |-> <<[job |-> job, error |-> "unhandled"]>>, scheduled |-> {}]

\* catch (error) { console.error(...) } around the whole body of a job
OnJobError(job) ==
    [log |-> <<[job |-> job, error |-> "caught"]>>, scheduled |-> scheduled]

UserOrder == <<"u1", "u2">>

\* User.find({ 'preferences.emailNotifications': true })
EnabledUsers == SelectSeq(UserOrder, LAMBDA u : users[u].emailNotifications)

\* Task.find of the scan rejects: the catch of checkAndSendReminders ends the run
ScanStartFails ==
    /\ "scan" \in scheduled
    /\ scanPc = "idle"
    /\ jobLog' = OnJobError("scan").log
    /\ scheduled' = OnJobError("scan").scheduled
    /\ UNCHANGED <<now, users, transporter, tasks, res, scanPc, scanQueue, lastMail, armed, cats, creq, nextCat, clientVars, serverVars>>
    /\ UNCHANGED <<jobs, lastSent, overview, resTasks>>

\* a pass of the scan loop whose task.save() rejects: the reminder was handed
\* over, the stored reminderDate stays, and the catch ends the run
ScanStepSaveFails(sent) ==
    /\ scanPc = "loop"
    /\ Head(scanQueue).emailNotifications
    /\ LET task == Head(scanQueue)
       IN  lastMail' = <<[task |-> task.id, to |-> task.userId,
                          outcome |-> SendTaskReminder(task.emailNotifications, sent)]>>
    /\ scanQueue' = <<>>
    /\ scanPc' = "idle"
    /\ jobLog' = OnJobError("scan").log
    /\ scheduled' = OnJobError("scan").scheduled
    /\ UNCHANGED <<now, users, transporter, tasks, res, armed, cats, creq, nextCat, clientVars, serverVars>>
    /\ UNCHANGED <<jobs, lastSent, overview, resTasks>>

----------------------------------------------------------------------------
(* Notification service: the daily due-soon digest *)

DigestLimit == 10

\* tomorrow.setDate(tomorrow.getDate() + 1); tomorrow.setHours(23, 59, 59, 999)
EndOfTomorrow(t) == (t \div MinutesPerDay + 1) * MinutesPerDay + 23 * 60 + 59

\* .limit(n): the first n documents of a result, in id order
RECURSIVE Limit(_, _)
Limit(S, n) ==
    IF S = {} \/ n = 0 THEN {}
    ELSE LET t == CHOOSE x \in S : \A y \in S : x <= y
         IN  {t} \cup Limit(S \ {t}, n - 1)

\* Task.find({ userId, completed: false, dueDate: { $lte: tomorrow } }).limit(10)
DueSoonTasks(u, tomorrow) ==
    Limit({t \in DOMAIN tasks :
              /\ tasks[t].userId = u
              /\ tasks[t].completed = FALSE
              /\ tasks[t].dueDate # Null
              /\ tasks[t].dueDate[1] <= tomorrow}, DigestLimit)

\* variant: a rejected sendMail is not caught in the function
SendTaskDueSoonNotificationThrows(emailNotifications, count, sent) ==
    IF transporter = "none" \/ ~emailNotifications \/ count = 0 THEN "skipped"
    ELSE IF sent THEN "delivered" ELSE "thrown"

\* sendTaskDueSoonNotification: what happens to the message
SendTaskDueSoonNotification(emailNotifications, count, sent) ==
    IF transporter = "none" \/ ~emailNotifications \/ count = 0 THEN "skipped"
    ELSE IF sent THEN "delivered" ELSE "failed"

\* sendDailySummary up to the loop: the end of tomorrow and the users to notify;
\* storeFails says that User.find rejects
DailyStart(storeFails) ==
    /\ "daily" \in scheduled
    /\ jobs["daily"].pc = "idle"
    /\ IF storeFails
       THEN /\ jobLog' = OnJobError("daily").log
            /\ scheduled' = OnJobError("daily").scheduled
            /\ UNCHANGED jobs
       ELSE /\ jobs' = [jobs EXCEPT !["daily"] =
                           IF EnabledUsers = <<>> THEN IdleJob
                           ELSE [pc |-> "loop", queue |-> EnabledUsers,
                                 bound |-> EndOfTomorrow(now), started |-> now]]
            /\ UNCHANGED <<jobLog, scheduled>>
    /\ UNCHANGED <<now, users, transporter, tasks, res, scanPc, scanQueue, lastMail, armed, cats, creq, nextCat, clientVars, serverVars>>
    /\ UNCHANGED <<lastSent, overview, resTasks>>

\* one pass of the loop of sendDailySummary; storeFails says that Task.find
\* rejects, sent is the channel's answer.  An exception ends the run in the catch.
DailyStep(storeFails, sent) ==
    /\ jobs["daily"].pc = "loop"
    /\ LET job == jobs["daily"]
           user == Head(job.queue)
           dueSoonTasks == DueSoonTasks(user, job.bound)
           outcome == SendTaskDueSoonNotification(users[user].emailNotifications,
                                                  Cardinality(dueSoonTasks), sent)
           called == ~storeFails /\ dueSoonTasks # {}
       IN  /\ lastSent' = IF called
                          THEN <<[kind |-> "digest", to |-> user, outcome |-> outcome,
                                  tasks |-> dueSoonTasks, stats |-> NoStats]>>
                          ELSE lastSent
           /\ IF storeFails \/ (called /\ outcome = "thrown")
              THEN /\ jobs' = [jobs EXCEPT !["daily"] = IdleJob]
                   /\ jobLog' = OnJobError("daily").log
                   /\ scheduled' = OnJobError("daily").scheduled
              ELSE /\ jobs' = [jobs EXCEPT !["daily"] =
                                  IF Len(job.queue) = 1 THEN IdleJob
                                  ELSE [job EXCEPT !.queue = Tail(job.queue)]]
                   /\ UNCHANGED <<jobLog, scheduled>>
    /\ UNCHANGED <<now, users, transporter, tasks, res, scanPc, scanQueue, lastMail, armed, cats, creq, nextCat, clientVars, serverVars>>
    /\ UNCHANGED <<overview, resTasks>>

----------------------------------------------------------------------------
(* Notification service: the weekly summaries *)

\* $dateToString with format '%Y-%m-%d': the calendar date of an instant
DateToString(t) == t \div MinutesPerDay

\* Math.round((part / whole) * 100)
RoundedPercent(part, whole) == (200 * part + whole) \div (2 * whole)

\* { userId, completed: true, completedAt: { $gte: startDate } }
CompletedSince(u, startDate) ==
    {t \in DOMAIN tasks :
        /\ tasks[t].userId = u
        /\ tasks[t].completed = TRUE
        /\ tasks[t].completedAt # Null
        /\ tasks[t].completedAt[1] >= startDate}

\* variant: the streak groups by nothing and counts the completed tasks
RecentDaysPerTask(u, startDate) == CompletedSince(u, startDate)

\* the $group stage of the streak aggregate: one document per calendar date
RecentDays(u, startDate) ==
    {DateToString(tasks[t].completedAt[1]) : t \in CompletedSince(u, startDate)}

\* generateWeeklyStats
GenerateWeeklyStats(u, startDate) ==
    LET totalTasks == Cardinality({t \in DOMAIN tasks : tasks[t].userId = u})
        allCompleted == Cardinality({t \in DOMAIN tasks :
                                        tasks[t].userId = u /\ tasks[t].completed = TRUE})
    IN  [completedTasks |-> Cardinality(CompletedSince(u, startDate)),
         completionRate |-> IF totalTasks > 0 THEN RoundedPercent(allCompleted, totalTasks) ELSE 0,
         streak |-> Cardinality(RecentDays(u, startDate))]

\* sendWeeklySummary: what happens to the message
SendWeeklySummary(emailNotifications, sent) ==
    IF transporter = "none" \/ ~emailNotifications THEN "skipped"
    ELSE IF sent THEN "delivered" ELSE "failed"

\* sendWeeklySummaries up to the loop: the start of the window (setDate(getDate() - 7))
\* and the users to notify; storeFails says that User.find rejects
WeeklyStart(storeFails) ==
    /\ "weekly" \in scheduled
    /\ jobs["weekly"].pc = "idle"
    /\ IF storeFails
       THEN /\ jobLog' = OnJobError("weekly").log
            /\ scheduled' = OnJobError("weekly").scheduled
            /\ UNCHANGED jobs
       ELSE /\ jobs' = [jobs EXCEPT !["weekly"] =
                           IF EnabledUsers = <<>> THEN IdleJob
                           ELSE [pc |-> "loop", queue |-> EnabledUsers,
                                 bound |-> now - 7 * MinutesPerDay, started |-> now]]
            /\ UNCHANGED <<jobLog, scheduled>>
    /\ UNCHANGED <<now, users, transporter, tasks, res, scanPc, scanQueue, lastMail, armed, cats, creq, nextCat, clientVars, serverVars>>
    /\ UNCHANGED <<lastSent, overview, resTasks>>

\* one pass of the loop of sendWeeklySummaries; storeFails says that a query of
\* generateWeeklyStats rejects, sent is the channel's answer
WeeklyStep(storeFails, sent) ==
    /\ jobs["weekly"].pc = "loop"
    /\ LET job == jobs["weekly"]
           user == Head(job.queue)
           outcome == SendWeeklySummary(users[user].emailNotifications, sent)
       IN  /\ lastSent' = IF storeFails THEN lastSent
                          ELSE <<[kind |-> "summary", to |-> user, outcome |-> outcome,
                                  tasks |-> {}, stats |-> GenerateWeeklyStats(user, job.bound)]>>
           /\ IF storeFails \/ outcome = "thrown"
              THEN /\ jobs' = [jobs EXCEPT !["weekly"] = IdleJob]
                   /\ jobLog' = OnJobError("weekly").log
                   /\ scheduled' = OnJobError("weekly").scheduled
              ELSE /\ jobs' = [jobs EXCEPT !["weekly"] =
                                  IF Len(job.queue) = 1 THEN IdleJob
                                  ELSE [job EXCEPT !.queue = Tail(job.queue)]]
                   /\ UNCHANGED <<jobLog, scheduled>>
    /\ UNCHANGED <<now, users, transporter, tasks, res, scanPc, scanQueue, lastMail, armed, cats, creq, nextCat, clientVars, serverVars>>
    /\ UNCHANGED <<overview, resTasks>>

----------------------------------------------------------------------------
(* Calendar.  Day 0 is Friday 1 December 2023; the calendar covers December   *)
(* 2023 to February 2024.                                                     *)

\* the instant at minute m of day d
At(d, m) == d * MinutesPerDay + m

\* days from 1 December 2023 to the first day of: December, January, February, March
MonthStarts == <<0, 31, 62, 91>>

\* Date.prototype.getDay: 0 is Sunday
GetDay(t) == (t \div MinutesPerDay + 5) % 7

\* now.setDate(now.getDate() - days): the same time of day, days earlier
SetDateBack(t, days) == t - days * MinutesPerDay

\* new Date(d.getFullYear(), d.getMonth(), 1): midnight of the first day of d's month
FirstOfMonth(t) ==
    LET day == t \div MinutesPerDay
        m == CHOOSE i \in 1..3 : MonthStarts[i] <= day /\ day < MonthStarts[i + 1]
    IN  At(MonthStarts[m], 0)

\* new Date(d.getFullYear(), 0, 1): midnight of 1 January of d's year
\* (1 January 2023 is 334 days before day 0)
FirstOfYear(t) ==
    IF t \div MinutesPerDay < MonthStarts[2] THEN At(0 - 334, 0)
    ELSE At(MonthStarts[2], 0)

\* setHours(0, 0, 0, 0)
StartOfDay(t) == At(t \div MinutesPerDay, 0)

----------------------------------------------------------------------------
(* Analytics routes *)

\* Task.countDocuments({ userId, completed: true, completedAt: { $gte: start } })
CountCompletedSince(u, start) == Cardinality(CompletedSince(u, start))

\* the three dates of the overview: now.setDate(...) moves now itself to the
\* start of the week, and the month and the year are then read from it
OverviewBounds(t) ==
    LET moved == SetDateBack(t, GetDay(t))
    IN  [startOfWeek |-> moved,
         startOfMonth |-> FirstOfMonth(moved),
         startOfYear |-> FirstOfYear(moved)]

\* the overview of user u's tasks
Overview(u) ==
    LET own == {t \in DOMAIN tasks : tasks[t].userId = u}
        done == {t \in own : tasks[t].completed = TRUE}
        pending == {t \in own : tasks[t].completed = FALSE /\ tasks[t].dueDate # Null}
        bounds == OverviewBounds(now)
    IN  [totalTasks |-> Cardinality(own),
         completedTasks |-> Cardinality(done),
         pendingTasks |-> Cardinality(own) - Cardinality(done),
         overdueTasks |-> Cardinality({t \in pending : tasks[t].dueDate[1] < now}),
         dueTodayTasks |-> Cardinality({t \in pending :
                                           /\ tasks[t].dueDate[1] >= StartOfDay(now)
                                           /\ tasks[t].dueDate[1] < StartOfDay(now) + MinutesPerDay}),
         completedThisWeek |-> CountCompletedSince(u, bounds.startOfWeek),
         completedThisMonth |-> CountCompletedSince(u, bounds.startOfMonth),
         completedThisYear |-> CountCompletedSince(u, bounds.startOfYear),
         completionRate |-> IF own # {} THEN RoundedPercent(Cardinality(done), Cardinality(own))
                            ELSE 0]

\* variant: the overview also stamps the tasks it counts as overdue
GetOverviewTouchesOverdue(u, storeFails) ==
    /\ res' = IF storeFails THEN 500 ELSE 200
    /\ overview' = IF storeFails THEN Null ELSE <<[user |-> u, data |-> Overview(u)]>>
    /\ tasks' = [t \in DOMAIN tasks |->
                    IF tasks[t].userId = u /\ tasks[t].completed = FALSE
                       /\ tasks[t].dueDate # Null /\ tasks[t].dueDate[1] < now
                    THEN [tasks[t] EXCEPT !.reminderDate = Null]
                    ELSE tasks[t]]
    /\ UNCHANGED <<now, users, transporter, scanPc, scanQueue, lastMail, armed, cats, creq, nextCat, clientVars, serverVars>>
    /\ UNCHANGED <<scheduled, jobs, jobLog, lastSent, resTasks>>

\* router.get('/overview'); storeFails says that a query rejects (answer 500)
GetOverview(u, storeFails) ==
    /\ res' = IF storeFails THEN 500 ELSE 200
    /\ overview' = IF storeFails THEN Null ELSE <<[user |-> u, data |-> Overview(u)]>>
    /\ UNCHANGED <<now, users, transporter, tasks, scanPc, scanQueue, lastMail, armed, cats, creq, nextCat, clientVars, serverVars>>
    /\ UNCHANGED <<scheduled, jobs, jobLog, lastSent, resTasks>>

\* the period of the query string of /productivity; "day" is not a valid one
Periods == {Absent, <<"week">>, <<"month">>, <<"year">>, <<"day">>}

\* router.get('/productivity'): four aggregates over the caller's tasks; only
\* the status of the answer is kept
GetProductivity(u, period, storeFails) ==
    /\ res' = IF period # Absent /\ period[1] \notin {"week", "month", "year"} THEN 400
              ELSE IF storeFails THEN 500 ELSE 200
    /\ UNCHANGED <<now, users, transporter, tasks, scanPc, scanQueue, lastMail, armed, cats, creq, nextCat, clientVars, serverVars>>
    /\ UNCHANGED jobVars

\* the two dates of the insights: each now.setDate(...) moves now itself, so
\* the second starts from the date the first has left
InsightBounds(t) ==
    LET week == SetDateBack(t, 7)
    IN  [startOfWeek |-> week, startOfMonth |-> SetDateBack(week, 30)]

\* $match completed since start, $group by category, $sort count -1, $limit 1:
\* the possible results; the order of groups with equal counts is not defined
CategoryStats(u, start) ==
    LET done == CompletedSince(u, start)
        count(c) == Cardinality({t \in done : tasks[t].category = c})
        groups == {tasks[t].category : t \in done}
    IN  IF groups = {} THEN {<<>>}
        ELSE {<<[_id |-> c, count |-> count(c)]>> :
                 c \in {g \in groups : \A o \in groups : count(g) >= count(o)}}

\* router.get('/insights'): counts and aggregates over the caller's tasks; the
\* answer's weeklyCompleted and the category of its 'Most Productive Category'
\* insight are kept
GetInsights(u, storeFails) ==
    /\ res' = IF storeFails THEN 500 ELSE 200
    /\ IF storeFails THEN insights' = Null
       ELSE LET bounds == InsightBounds(now)
            IN  \E stats \in CategoryStats(u, bounds.startOfMonth) :
                    insights' = <<[weeklyCompleted |-> CountCompletedSince(u, bounds.startOfWeek),
                                   categoryStats |-> stats]>>
    /\ UNCHANGED <<now, users, transporter, tasks, scanPc, scanQueue, lastMail, armed, cats, creq, nextCat, clientVars>>
    /\ UNCHANGED <<lastScan, ovReq, listing>>
    /\ UNCHANGED jobVars

\* router.get('/time-tracking'): three aggregates over the caller's tasks;
\* only the status of the answer is kept
GetTimeTracking(u, storeFails) ==
    /\ res' = IF storeFails THEN 500 ELSE 200
    /\ UNCHANGED <<now, users, transporter, tasks, scanPc, scanQueue, lastMail, armed, cats, creq, nextCat, clientVars, serverVars>>
    /\ UNCHANGED jobVars

----------------------------------------------------------------------------
(* Task routes: the pages of the list.  The tasks are sorted by dueDate; the  *)
(* store returns documents with equal sort keys in an order that is not       *)
(* defined and that need not be the same in two queries.                      *)

\* { userId: req.user._id }
ListFilter(u) == {t \in DOMAIN tasks : tasks[t].userId = u}

\* the place of a dueDate in the sort order: a missing date sorts before every date
SortKey(t) == IF tasks[t].dueDate = Null THEN -1 ELSE tasks[t].dueDate[1]

\* .sort({ dueDate: sortOrder === 'asc' ? 1 : -1 }): the orders the store can
\* return the documents of S in
Sorted(S, sortOrder) ==
    {list \in [1..Cardinality(S) -> S] :
        /\ \A i, j \in 1..Cardinality(S) : i # j => list[i] # list[j]
        /\ \A i, j \in 1..Cardinality(S) :
              i < j => IF sortOrder = "asc" THEN SortKey(list[i]) <= SortKey(list[j])
                       ELSE SortKey(list[i]) >= SortKey(list[j])}

\* .skip(skip).limit(limit)
SkipLimit(list, skip, limit) ==
    [i \in 1..(IF Len(list) <= skip THEN 0
               ELSE IF Len(list) - skip < limit THEN Len(list) - skip ELSE limit) |-> list[skip + i]]

\* Math.ceil(totalTasks / limit)
Ceil(totalTasks, limit) == (totalTasks + limit - 1) \div limit

\* the pagination object of the answer
Pagination(page, limit, totalTasks) ==
    [currentPage |-> page,
     totalPages |-> Ceil(totalTasks, limit),
     totalTasks |-> totalTasks,
     hasNextPage |-> page < Ceil(totalTasks, limit),
     hasPrevPage |-> page > 1]

\* the pages a client has got so far while it asks for the pages of one list:
\* a request for another list starts again
PagesSoFar(u, sortOrder, limit) ==
    IF /\ listing # Null
       /\ listing[1].user = u /\ listing[1].sortOrder = sortOrder /\ listing[1].limit = limit
    THEN listing[1].pages
    ELSE [p \in {} |-> <<>>]

\* router.get('/') of the task routes with sortBy=dueDate and the sortOrder,
\* page and limit of the query string
ListTasksPage(u, sortOrder, page, limit) ==
    /\ IF page < 1 \/ limit < 1
       THEN /\ res' = 400
            /\ resTasks' = {}
            /\ UNCHANGED listing
       ELSE \E list \in Sorted(ListFilter(u), sortOrder) :
               LET found == SkipLimit(list, (page - 1) * limit, limit)
                   pages == PagesSoFar(u, sortOrder, limit)
               IN  /\ res' = 200
                   /\ resTasks' = {found[i] : i \in DOMAIN found}
                   /\ listing' = <<[user |-> u, sortOrder |-> sortOrder, limit |-> limit,
                                    pages |-> [p \in DOMAIN pages \cup {page} |->
                                                  IF p = page THEN found ELSE pages[p]],
                                    pagination |-> Pagination(page, limit,
                                                              Cardinality(ListFilter(u)))]>>
    /\ UNCHANGED <<now, users, transporter, tasks, scanPc, scanQueue, lastMail, armed, cats, creq, nextCat, clientVars>>
    /\ UNCHANGED <<scheduled, jobs, jobLog, lastSent, overview>>
    /\ UNCHANGED <<lastScan, ovReq, insights>>

----------------------------------------------------------------------------
(* Analytics routes: the overview as the sequence of its store operations.   *)
(* Other requests are served between two of them; the handler keeps the      *)
(* counts it has read in its local constants.                                *)

\* an overview request that is not running
IdleOverview == [pc |-> "idle", user |-> "", totalTasks |-> 0, completedTasks |-> 0]

\* what a step leaves alone when it writes ovReq and res
OverviewFrame ==
    /\ UNCHANGED <<now, users, transporter, tasks, scanPc, scanQueue, lastMail, armed,
                   cats, creq, nextCat, clientVars>>
    /\ UNCHANGED <<scheduled, jobs, jobLog, lastSent, resTasks>>
    /\ UNCHANGED <<lastScan, listing, insights>>

\* the answer built from the two counts the handler holds and the counts it
\* reads last
OverviewAnswer(u, totalTasks, completedTasks) ==
    [Overview(u) EXCEPT
        !.totalTasks = totalTasks,
        !.completedTasks = completedTasks,
        !.pendingTasks = totalTasks - completedTasks,
        !.completionRate = IF totalTasks > 0 THEN RoundedPercent(completedTasks, totalTasks) ELSE 0]

\* the catch block of the handler: answer 500
OverviewFails ==
    /\ ovReq' = IdleOverview
    /\ res' = 500
    /\ overview' = Null

\* router.get('/overview') up to Task.countDocuments({ userId })
OverviewCountTotal(u, storeFails) ==
    /\ ovReq.pc = "idle"
    /\ IF storeFails THEN OverviewFails
       ELSE /\ ovReq' = [pc |-> "completed", user |-> u, completedTasks |-> 0,
                         totalTasks |-> Cardinality({t \in DOMAIN tasks : tasks[t].userId = u})]
            /\ UNCHANGED <<res, overview>>
    /\ OverviewFrame

\* Task.countDocuments({ userId, completed: true })
OverviewCountCompleted(storeFails) ==
    /\ ovReq.pc = "completed"
    /\ IF storeFails THEN OverviewFails
       ELSE /\ ovReq' = [ovReq EXCEPT
                            !.pc = "rest",
                            !.completedTasks =
                                Cardinality({t \in DOMAIN tasks : /\ tasks[t].userId = ovReq.user
                                                                  /\ tasks[t].completed = TRUE})]
            /\ UNCHANGED <<res, overview>>
    /\ OverviewFrame

\* the queries that follow, and the answer
OverviewRespond(storeFails) ==
    /\ ovReq.pc = "rest"
    /\ IF storeFails THEN OverviewFails
       ELSE /\ ovReq' = IdleOverview
            /\ res' = 200
            /\ overview' = <<[user |-> ovReq.user,
                              data |-> OverviewAnswer(ovReq.user, ovReq.totalTasks, ovReq.completedTasks)]>>
    /\ OverviewFrame

----------------------------------------------------------------------------
(* Web client: the auth reducer *)

\* const initialState
initialState ==
    [user |-> Null, token |-> Null, isAuthenticated |-> FALSE, isLoading |-> TRUE,
     error |-> Null]

\* authReducer; an action is a record with its type and its payload
authReducer(state, action) ==
    CASE action.type = "AUTH_START" ->
            [state EXCEPT !.isLoading = TRUE, !.error = Null]
      [] action.type = "AUTH_SUCCESS" ->
            [state EXCEPT !.user = action.payload.user, !.token = action.payload.token,
                          !.isAuthenticated = TRUE, !.isLoading = FALSE, !.error = Null]
      [] action.type = "AUTH_FAILURE" ->
            [state EXCEPT !.user = Null, !.token = Null, !.isAuthenticated = FALSE,
                          !.isLoading = FALSE, !.error = action.payload]
      [] action.type = "AUTH_LOGOUT" ->
            [state EXCEPT !.user = Null, !.token = Null, !.isAuthenticated = FALSE,
                          !.isLoading = FALSE, !.error = Null]
      [] action.type = "AUTH_UPDATE_PROFILE" ->
            \* { ...state.user, ...action.payload }: the payload is a whole user
            [state EXCEPT !.user = action.payload, !.error = Null]
      [] action.type = "AUTH_CLEAR_ERROR" ->
            [state EXCEPT !.error = Null]
      [] action.type = "AUTH_SET_LOADING" ->
            [state EXCEPT !.isLoading = action.payload]
      [] OTHER -> state

\* localStorage without the keys 'token' and 'user'
EmptyStorage == [token |-> Null, user |-> Null]

\* the provider after mounting: the effect has not run, no request is in flight.
\* init is the position of initializeAuth, initToken the token it read, login
\* and profile the pending login/register and updateProfile/refreshUser calls,
\* reload says that window.location.href was assigned
MountedCalls ==
    [init |-> "start", initToken |-> Null, login |-> "idle", profile |-> "idle",
     reload |-> FALSE]

\* the request variables where a specification does not use them
InitRequests ==
    /\ lastScan = Null
    /\ ovReq = IdleOverview
    /\ listing = Null
    /\ insights = Null

\* the client and the request variables where a specification does not use them
InitRest ==
    /\ auth = initialState
    /\ storage = EmptyStorage
    /\ calls = MountedCalls
    /\ InitRequests

----------------------------------------------------------------------------
(* Web client: the provider's functions.  A function that awaits a request   *)
(* takes two steps: up to the request, and from the response on.  The effect *)
(* that calls initializeAuth runs when the provider mounts, before a         *)
(* component can call another function of the provider.                      *)

\* tokens the server issues and user objects it returns
Tokens == {"t1", "t2"}

Profiles == {"p1", "p2"}

\* how a request ends: a response body, a 401, or another error (another
\* status, no response, the 10 s timeout)
Outcomes == {"ok", "unauthorized", "error"}

ClientFrame ==
    UNCHANGED <<now, users, transporter, tasks, res, scanPc, scanQueue, lastMail, armed,
                cats, creq, nextCat, jobVars, serverVars>>

\* the response interceptor on status 401: localStorage loses both keys and
\* window.location.href is assigned; the error is thrown on to the caller
Interceptor(outcome, store) == IF outcome = "unauthorized" THEN EmptyStorage ELSE store

\* initializeAuth up to the profile request
InitializeAuth ==
    /\ calls.init = "start"
    /\ LET loading == authReducer(auth, [type |-> "AUTH_SET_LOADING", payload |-> TRUE])
       IN  IF storage.token # Null /\ storage.user # Null
           THEN /\ auth' = loading
                /\ calls' = [calls EXCEPT !.init = "profile", !.initToken = storage.token]
           ELSE /\ auth' = authReducer(loading, [type |-> "AUTH_SET_LOADING", payload |-> FALSE])
                /\ calls' = [calls EXCEPT !.init = "done"]
    /\ UNCHANGED storage
    /\ ClientFrame

\* initializeAuth whose catch block removes the stored session and leaves the
\* loading flag as it is
InitializeAuthResponseKeepsLoading(outcome, user) ==
    /\ calls.init = "profile"
    /\ IF outcome = "ok"
       THEN /\ auth' = authReducer(auth, [type |-> "AUTH_SUCCESS",
                                          payload |-> [user |-> <<user>>, token |-> calls.initToken]])
            /\ UNCHANGED storage
       ELSE /\ storage' = EmptyStorage
            /\ UNCHANGED auth
    /\ calls' = [calls EXCEPT !.init = "done", !.initToken = Null,
                              !.reload = @ \/ outcome = "unauthorized"]
    /\ ClientFrame

\* initializeAuth from the answer of authAPI.getProfile on
InitializeAuthResponse(outcome, user) ==
    /\ calls.init = "profile"
    /\ IF outcome = "ok"
       THEN /\ auth' = authReducer(auth, [type |-> "AUTH_SUCCESS",
                                          payload |-> [user |-> <<user>>, token |-> calls.initToken]])
            /\ UNCHANGED storage
       ELSE /\ storage' = EmptyStorage
            /\ auth' = authReducer(auth, [type |-> "AUTH_SET_LOADING", payload |-> FALSE])
    /\ calls' = [calls EXCEPT !.init = "done", !.initToken = Null,
                              !.reload = @ \/ outcome = "unauthorized"]
    /\ ClientFrame

\* login and register up to the request; kind is "login" or "register"
Login(kind) ==
    /\ calls.init # "start"
    /\ calls.login = "idle"
    /\ auth' = authReducer(auth, [type |-> "AUTH_START", payload |-> Null])
    /\ calls' = [calls EXCEPT !.login = kind]
    /\ UNCHANGED storage
    /\ ClientFrame

\* login and register from the answer on
LoginResponse(outcome, user, token) ==
    /\ calls.login # "idle"
    /\ IF outcome = "ok"
       THEN /\ storage' = [token |-> <<token>>, user |-> <<user>>]
            /\ auth' = authReducer(auth, [type |-> "AUTH_SUCCESS",
                                          payload |-> [user |-> <<user>>, token |-> <<token>>]])
       ELSE /\ storage' = Interceptor(outcome, storage)
            /\ auth' = authReducer(auth, [type |-> "AUTH_FAILURE", payload |-> <<"failed">>])
    /\ calls' = [calls EXCEPT !.login = "idle", !.reload = @ \/ outcome = "unauthorized"]
    /\ ClientFrame

\* logout
Logout ==
    /\ calls.init # "start"
    /\ storage' = EmptyStorage
    /\ auth' = authReducer(auth, [type |-> "AUTH_LOGOUT", payload |-> Null])
    /\ UNCHANGED calls
    /\ ClientFrame

\* updateProfile and refreshUser up to the request, which carries the stored
\* token; kind is "update" or "refresh"
ProfileCall(kind) ==
    /\ calls.init # "start"
    /\ calls.profile = "idle"
    /\ storage.token # Null
    /\ calls' = [calls EXCEPT !.profile = kind]
    /\ UNCHANGED <<auth, storage>>
    /\ ClientFrame

\* updateProfile and refreshUser from the answer on
ProfileResponse(outcome, user) ==
    /\ calls.profile # "idle"
    /\ IF outcome = "ok"
       THEN /\ storage' = [storage EXCEPT !.user = <<user>>]
            /\ auth' = authReducer(auth, [type |-> "AUTH_UPDATE_PROFILE", payload |-> <<user>>])
       ELSE /\ storage' = Interceptor(outcome, storage)
            /\ UNCHANGED auth
    /\ calls' = [calls EXCEPT !.profile = "idle", !.reload = @ \/ outcome = "unauthorized"]
    /\ ClientFrame

\* clearError
ClearError ==
    /\ calls.init # "start"
    /\ auth' = authReducer(auth, [type |-> "AUTH_CLEAR_ERROR", payload |-> Null])
    /\ UNCHANGED <<storage, calls>>
    /\ ClientFrame

\* the navigation that the assignment to window.location.href starts: the page
\* is loaded again, the provider mounts with initialState and the pending
\* requests of the old page are gone
Reload ==
    /\ calls.reload
    /\ auth' = initialState
    /\ calls' = MountedCalls
    /\ UNCHANGED storage
    /\ ClientFrame

----------------------------------------------------------------------------
(* Web client: the route guards.  Each is a function of the provider's state *)
(* and yields what it renders.                                               *)

\* ProtectedRoute without the isAuthenticated test
ProtectedRouteLoadingOnly(state) ==
    IF state.isLoading THEN "LoadingSpinner" ELSE "children"

ProtectedRoute(state) ==
    IF state.isLoading THEN "LoadingSpinner"
    ELSE IF ~state.isAuthenticated THEN "/login"
    ELSE "children"

PublicRoute(state) ==
    IF state.isLoading THEN "LoadingSpinner"
    ELSE IF state.isAuthenticated THEN "/dashboard"
    ELSE "children"

withAuth(state) ==
    IF state.isLoading THEN "Loading"
    ELSE IF ~state.isAuthenticated THEN "null"
    ELSE "Component"

----------------------------------------------------------------------------
(* Specifications *)

InitStores ==
    /\ now = 520
    /\ users = [u \in Users |-> [emailNotifications |-> (u = "u1")]]
    /\ \E credentials \in BOOLEAN : transporter = InitializeEmailTransporter(credentials)
    /\ tasks = [t \in {} |-> NewTaskDoc("u1")]
    /\ res = 0
    /\ scanPc = "idle"
    /\ scanQueue = <<>>
    /\ lastMail = Null
    /\ armed = [t \in TaskIds |-> FALSE]
    /\ cats = [c \in {} |-> NoCat]
    /\ creq = [r \in Requests |-> IdleReq]
    /\ nextCat = 1
    /\ scheduled = StartReminderScheduler
    /\ jobs = [j \in {"daily", "weekly"} |-> IdleJob]
    /\ jobLog = Null
    /\ lastSent = Null
    /\ overview = Null
    /\ resTasks = {}

Init == InitStores /\ InitRest

\* the task store under every task and subtask request, with the scan running
Next ==
    \/ \E u \in Users, body \in StoreBodies : CreateTask(u, body)
    \/ \E u \in Users, id \in TaskIds, body \in StoreBodies : UpdateTask(u, id, body)
    \/ \E u \in Users, id \in TaskIds : AddSubtask(u, id)
    \/ \E u \in Users, id \in TaskIds, sid \in 1..MaxSubtasks,
          body \in [completed : {Absent, <<TRUE>>, <<FALSE>>}] : UpdateSubtask(u, id, sid, body)
    \/ \E u \in Users, id \in TaskIds, sid \in 1..MaxSubtasks : DeleteSubtask(u, id, sid)
    \/ \E u \in Users, ids \in ReorderLists : PutTasksReorder(u, ids)
    \/ ScanStart
    \/ \E sent \in BOOLEAN : ScanStep(sent)
    \/ Tick({520, 530})

Spec == Init /\ [][Next]_vars

\* the reminder scan against tasks that are created, completed and re-dated
NextScan ==
    \/ \E u \in Users, body \in ScanBodies : CreateTask(u, body)
    \/ \E u \in Users, id \in TaskIds, body \in ScanBodies : UpdateTask(u, id, body)
    \/ ScanStart
    \/ \E sent \in BOOLEAN : ScanStep(sent)
    \/ Tick(Instants)

SpecScan == Init /\ [][NextScan]_vars

\* a new request is served in the first free slot
FreeSlot == CHOOSE r \in Requests : creq[r].pc = "idle" /\ \A o \in Requests : creq[o].pc = "idle" => r <= o

SomeSlotFree == \E r \in Requests : creq[r].pc = "idle"

InitCat == Init /\ transporter = "none"

\* the category store under interleaved create and update requests: an update
\* runs in slot 1, a create in the first free slot, so that a create overlaps
\* with a create or with an update
NextCat ==
    \/ SomeSlotFree /\ \E u \in Users, body \in CatBodies : CreateCategory(FreeSlot, u, body)
    \/ \E r \in Requests : CreateOrder(r)
    \/ \E r \in Requests : CreateHook(r)
    \/ \E r \in Requests : CreateInsert(r)
    \/ \E u \in Users, id \in CatIds, body \in CatBodies : UpdateCategory(1, u, id, body)
    \/ \E r \in Requests : UpdateCheck(r)
    \/ \E r \in Requests : UpdateHook(r)
    \/ \E r \in Requests : UpdateWrite(r)

SpecCat == InitCat /\ [][NextCat]_vars

\* bodies of the tasks filed under a category
CategoryTaskBodies == {TaskBody(Absent, Absent, Absent, Absent, <<n>>) : n \in CatNames}

\* bodies of the category requests that surround a delete
DeleteCatBodies == [name : {<<n>> : n \in CatNames}, isDefault : {Absent}]

\* category deletion, with categories created and renamed and tasks filed and
\* moved: a create or a rename runs in slot 1, a delete in the first free slot,
\* so that a delete overlaps with a create, a rename or another delete
NextCatDelete ==
    \/ \E u \in Users, body \in DeleteCatBodies : CreateCategory(1, u, body)
    \/ \E r \in Requests : CreateOrder(r)
    \/ \E r \in Requests : CreateInsert(r)
    \/ \E u \in Users, id \in CatIds, body \in DeleteCatBodies : UpdateCategory(1, u, id, body)
    \/ \E r \in Requests : UpdateCheck(r)
    \/ \E r \in Requests : UpdateWrite(r)
    \/ SomeSlotFree /\ \E u \in Users, id \in CatIds : DeleteCategory(FreeSlot, u, id)
    \/ \E r \in Requests : DeleteCount(r)
    \/ \E r \in Requests : DeleteRemove(r)
    \/ \E u \in Users, body \in CategoryTaskBodies : CreateTask(u, body)
    \/ \E u \in Users, id \in TaskIds, body \in CategoryTaskBodies : UpdateTask(u, id, body)

SpecCatDelete == InitCat /\ [][NextCatDelete]_vars

\* the task and subtask endpoints under requests of both users.  A deleted
\* task's id is given to the next created task: no handler keeps an id between
\* two requests, so the reuse is a renaming.
AccessBodies ==
    {TaskBody(Absent, Absent, Absent, Absent, Work),
     TaskBody(<<TRUE>>, Absent, Absent, Absent, Absent)}

NextAccess ==
    \/ \E u \in Users, body \in AccessBodies : CreateTask(u, body)
    \/ \E u \in Users, id \in TaskIds, body \in AccessBodies : UpdateTask(u, id, body)
    \/ \E u \in Users, id \in TaskIds, owner \in Users : UpdateTaskOwner(u, id, owner)
    \/ \E u \in Users, id \in TaskIds : GetTask(u, id)
    \/ \E u \in Users, completed \in {Absent, <<"true">>, <<"false">>} : ListTasks(u, completed)
    \/ \E u \in Users, id \in TaskIds : DeleteTask(u, id)
    \/ \E u \in Users, id \in TaskIds : AddSubtask(u, id)
    \/ \E u \in Users, id \in TaskIds, sid \in 1..MaxSubtasks,
          body \in [completed : {Absent, <<TRUE>>, <<FALSE>>}] : UpdateSubtask(u, id, sid, body)
    \/ \E u \in Users, id \in TaskIds, sid \in 1..MaxSubtasks : DeleteSubtask(u, id, sid)
    \/ \E u \in Users, ids \in ReorderLists : PutTasksReorder(u, ids)

SpecAccess == Init /\ [][NextAccess]_vars

----------------------------------------------------------------------------
(* The notification jobs with failing store operations and a failing channel *)

\* a task due today at 10:00 with its reminder at 09:00, a task due tomorrow
\* at 10:00 whose reminder is not set, and a completed task, for either user
JobDocs ==
    {[NewTaskDoc(u) EXCEPT !.dueDate = <<600>>, !.reminderDate = <<540>>] : u \in Users}
    \cup {[NewTaskDoc(u) EXCEPT !.dueDate = <<MinutesPerDay + 600>>] : u \in Users}
    \cup {[NewTaskDoc(u) EXCEPT !.completed = TRUE, !.completedAt = <<520>>,
                                !.dueDate = <<600>>] : u \in Users}

JobStores == UNION {[1..n -> JobDocs] : n \in 0..(MaxTasks + 1)}

\* the service at 09:00, when the scan and the daily digest are both due
InitJobs ==
    /\ now = 540
    /\ users \in {[u \in Users |-> [emailNotifications |-> TRUE]],
                  [u \in Users |-> [emailNotifications |-> (u = "u1")]]}
    /\ \E credentials \in BOOLEAN : transporter = InitializeEmailTransporter(credentials)
    /\ tasks \in JobStores
    /\ res = 0
    /\ scanPc = "idle"
    /\ scanQueue = <<>>
    /\ lastMail = Null
    /\ armed = [t \in TaskIds |-> FALSE]
    /\ cats = [c \in {} |-> NoCat]
    /\ creq = [r \in Requests |-> IdleReq]
    /\ nextCat = 1
    /\ scheduled = StartReminderScheduler
    /\ jobs = [j \in {"daily", "weekly"} |-> IdleJob]
    /\ jobLog = Null
    /\ lastSent = Null
    /\ overview = Null
    /\ resTasks = {}
    /\ InitRest

\* no job is in its loop: the schedules of the three jobs keep their runs apart
JobsIdle == scanPc = "idle" /\ \A j \in DOMAIN jobs : jobs[j].pc = "idle"

NextJobs ==
    \/ JobsIdle /\ "scan" \in scheduled /\ ScanStart
    \/ JobsIdle /\ ScanStartFails
    \/ \E sent \in BOOLEAN : ScanStep(sent)
    \/ \E sent \in BOOLEAN : ScanStepSaveFails(sent)
    \/ \E storeFails \in BOOLEAN : JobsIdle /\ DailyStart(storeFails)
    \/ \E storeFails \in BOOLEAN, sent \in BOOLEAN : DailyStep(storeFails, sent)
    \/ \E storeFails \in BOOLEAN : JobsIdle /\ WeeklyStart(storeFails)
    \/ \E storeFails \in BOOLEAN, sent \in BOOLEAN : WeeklyStep(storeFails, sent)
    \/ Tick({541})

SpecJobs == InitJobs /\ [][NextJobs]_vars

----------------------------------------------------------------------------
(* The analytics routes and the weekly statistics over stores of tasks that  *)
(* were completed on several days                                            *)

\* task documents: completed at one of the instants, not completed but with a
\* completedAt stamp, and open and overdue with its reminder still set
StatDocs(instants) ==
    {[NewTaskDoc(u) EXCEPT !.completed = TRUE, !.completedAt = <<c>>] :
        u \in Users, c \in instants}
    \cup {[NewTaskDoc(u) EXCEPT !.completedAt = <<c>>] :
             u \in Users, c \in {CHOOSE i \in instants : \A j \in instants : i >= j}}
    \cup {[NewTaskDoc(u) EXCEPT !.dueDate = <<c>>, !.reminderDate = <<c - 60>>] :
             u \in Users, c \in {CHOOSE i \in instants : \A j \in instants : i >= j}}

StatStores(instants) == UNION {[1..n -> StatDocs(instants)] : n \in 0..(MaxTasks + 1)}

\* completions on 15 December, on Sunday 31 December at 08:00 and on 2 January
OverviewInstants == {At(14, 540), At(30, 480), At(32, 540)}

\* requests from Wednesday 3 January 2024, 10:00
InitStats ==
    /\ now = At(33, 600)
    /\ users = [u \in Users |-> [emailNotifications |-> (u = "u1")]]
    /\ transporter = InitializeEmailTransporter(TRUE)
    /\ tasks \in StatStores(OverviewInstants)
    /\ res = 0
    /\ scanPc = "idle"
    /\ scanQueue = <<>>
    /\ lastMail = Null
    /\ armed = [t \in TaskIds |-> FALSE]
    /\ cats = [c \in {1} |-> [userId |-> "u1", name |-> "A", isDefault |-> FALSE, order |-> 0]]
    /\ creq = [r \in Requests |-> IdleReq]
    /\ nextCat = Cardinality(DOMAIN cats) + 1
    /\ scheduled = StartReminderScheduler
    /\ jobs = [j \in {"daily", "weekly"} |-> IdleJob]
    /\ jobLog = Null
    /\ lastSent = Null
    /\ overview = Null
    /\ resTasks = {}
    /\ InitRest

\* the four analytics endpoints; the clock goes on to Wednesday 17 January
NextStats ==
    \/ \E u \in Users, storeFails \in BOOLEAN : GetOverview(u, storeFails)
    \/ \E u \in Users, period \in Periods, storeFails \in BOOLEAN :
          GetProductivity(u, period, storeFails)
    \/ \E u \in Users, storeFails \in BOOLEAN : GetInsights(u, storeFails)
    \/ \E u \in Users, storeFails \in BOOLEAN : GetTimeTracking(u, storeFails)
    \/ Tick({At(47, 600)})

SpecStats == InitStats /\ [][NextStats]_vars

\* completions on Sunday 31 December at 08:00 and at 18:00, twice on 2 January
\* and on 4 January
WeeklyInstants == {At(30, 480), At(30, 1080), At(32, 540), At(32, 900), At(34, 540)}

\* the weekly job from Sunday 7 January 2024, 18:00
InitWeekly ==
    /\ now = At(37, 1080)
    /\ users = [u \in Users |-> [emailNotifications |-> (u = "u1")]]
    /\ transporter = InitializeEmailTransporter(TRUE)
    /\ tasks \in StatStores(WeeklyInstants)
    /\ res = 0
    /\ scanPc = "idle"
    /\ scanQueue = <<>>
    /\ lastMail = Null
    /\ armed = [t \in TaskIds |-> FALSE]
    /\ cats = [c \in {} |-> NoCat]
    /\ creq = [r \in Requests |-> IdleReq]
    /\ nextCat = 1
    /\ scheduled = StartReminderScheduler
    /\ jobs = [j \in {"daily", "weekly"} |-> IdleJob]
    /\ jobLog = Null
    /\ lastSent = Null
    /\ overview = Null
    /\ resTasks = {}
    /\ InitRest

\* the weekly job; the clock goes on to the next Sunday, 18:00
NextWeekly ==
    \/ \E storeFails \in BOOLEAN : WeeklyStart(storeFails)
    \/ \E storeFails \in BOOLEAN, sent \in BOOLEAN : WeeklyStep(storeFails, sent)
    \/ Tick({At(44, 1080)})

SpecWeekly == InitWeekly /\ [][NextWeekly]_vars

----------------------------------------------------------------------------
(* The web client: the provider from its mount on, with requests in flight   *)
(* while other functions of the provider run                                 *)

\* what localStorage holds when the page is opened: nothing, or the session a
\* login of an earlier visit stored
StoredSessions == {EmptyStorage, [token |-> <<"t1">>, user |-> <<"p1">>]}

InitClient ==
    /\ InitStores
    /\ InitRequests
    /\ auth = initialState
    /\ storage \in StoredSessions
    /\ calls = MountedCalls

NextClient ==
    \/ InitializeAuth
    \/ \E outcome \in Outcomes, user \in Profiles : InitializeAuthResponse(outcome, user)
    \/ \E kind \in {"login", "register"} : Login(kind)
    \/ \E outcome \in Outcomes, user \in Profiles, token \in Tokens :
          LoginResponse(outcome, user, token)
    \/ Logout
    \/ \E kind \in {"update", "refresh"} : ProfileCall(kind)
    \/ \E outcome \in Outcomes, user \in Profiles : ProfileResponse(outcome, user)
    \/ ClearError
    \/ Reload

SpecClient == InitClient /\ [][NextClient]_vars

\* the effect of the mount runs, every request ends (by its response or by the
\* 10 s timeout of the axios instance), and a started navigation loads the page
SpecClientFair ==
    /\ SpecClient
    /\ WF_vars(InitializeAuth)
    /\ WF_vars(\E outcome \in Outcomes, user \in Profiles : InitializeAuthResponse(outcome, user))
    /\ WF_vars(\E outcome \in Outcomes, user \in Profiles, token \in Tokens :
                  LoginResponse(outcome, user, token))
    /\ WF_vars(Reload)

----------------------------------------------------------------------------
(* The overview while tasks are created, completed, reopened and deleted *)

OverviewBodies ==
    {TaskBody(Absent, Absent, Absent, Absent, Work),
     TaskBody(<<TRUE>>, Absent, Absent, Absent, Work),
     TaskBody(<<FALSE>>, Absent, Absent, Absent, Absent)}

NextOverview ==
    \/ \E u \in Users, body \in OverviewBodies : CreateTask(u, body)
    \/ \E u \in Users, id \in TaskIds, body \in OverviewBodies : UpdateTask(u, id, body)
    \/ \E u \in Users, id \in TaskIds : DeleteTask(u, id)
    \/ \E u \in Users, storeFails \in BOOLEAN : OverviewCountTotal(u, storeFails)
    \/ \E storeFails \in BOOLEAN : OverviewCountCompleted(storeFails)
    \/ \E storeFails \in BOOLEAN : OverviewRespond(storeFails)

SpecOverview == InitStats /\ [][NextOverview]_vars

----------------------------------------------------------------------------
(* The pages of the task list over a store that does not change *)

\* page and limit of the query string; 0 fails the validation
PageNumbers == 0..(MaxTasks + 2)

PageLimits == 0..(MaxTasks + 1)

NextPages ==
    \E u \in Users, sortOrder \in {"asc", "desc"}, page \in PageNumbers, limit \in PageLimits :
        ListTasksPage(u, sortOrder, page, limit)

SpecPages == InitStats /\ [][NextPages]_vars

----------------------------------------------------------------------------
(* The reminder scan on its schedule: the mail channel is configured, no      *)
(* send and no store operation fails, a scan runs at 08:45 and at 09:00, and  *)
(* a request sets a reminder only to a date that is still to come             *)

Due0955 == << <<9, 55>> >>

CronBodies ==
    {TaskBody(Absent, Absent, Due0955, Absent, Work),
     TaskBody(Absent, Absent, Due1000, Absent, Work),
     TaskBody(<<TRUE>>, Absent, Absent, Absent, Absent)}

\* the reminder that the body's dueDate sets is in the future
SetsFutureReminder(body) == Has(body, "dueDate") => ReminderFor(Val(body, "dueDate"))[1] > now

InitCron == Init /\ transporter = "ready"

NextCron ==
    \/ \E u \in Users, body \in CronBodies : SetsFutureReminder(body) /\ CreateTask(u, body)
    \/ \E u \in Users, id \in TaskIds, body \in CronBodies :
          SetsFutureReminder(body) /\ UpdateTask(u, id, body)
    \/ CronScan
    \/ ScanStep(TRUE)
    \/ CronTick(Instants)

SpecCron == InitCron /\ [][NextCron]_vars

----------------------------------------------------------------------------
(* Properties of the task store *)

\* the task a create step has inserted
Created == DOMAIN tasks' \ DOMAIN tasks

ReminderIsHourBeforeDue(doc) ==
    /\ doc.dueDate # Null
    /\ doc.reminderDate = <<doc.dueDate[1] - 60>>

\* C1: right after a task is created with a dueDate, and right after any update
\* whose body carries a dueDate, reminderDate is dueDate minus one hour,
\* whatever else the body carries (a reminderDate of its own included).
C1_ReminderHourBeforeDue ==
    [][/\ \A t \in Created :
            tasks'[t].dueDate # Null => ReminderIsHourBeforeDue(tasks'[t])
       /\ \A u \in Users, id \in TaskIds, body \in StoreBodies :
            (UpdateTask(u, id, body) /\ FindTask(u, id) /\ Has(body, "dueDate"))
                => ReminderIsHourBeforeDue(tasks'[id])]_vars

\* a task due at 10:00 whose reminder is at 09:00, left by a create or an update
C1_Witness ==
    \E t \in DOMAIN tasks :
        /\ tasks[t].dueDate = <<600>>
        /\ tasks[t].reminderDate = <<540>>
        /\ res \in {200, 201}

\* C2: in every state of the task store a task's completedAt is non-null
\* exactly when its completed flag is true.
C2_CompletedAtIffCompleted ==
    \A t \in DOMAIN tasks : (tasks[t].completedAt # Null) <=> tasks[t].completed

\* C3: a save sets completedAt to the save time exactly when completed goes
\* from false to true (a new task starts from false), clears it exactly when
\* completed goes from true to false, and leaves it alone otherwise.
C3_CompletedAtFollowsTransitions ==
    [][\A t \in DOMAIN tasks' :
          LET before == IF t \in DOMAIN tasks THEN tasks[t] ELSE NewTaskDoc(tasks'[t].userId)
              after == tasks'[t]
          IN  /\ (~before.completed /\ after.completed) => after.completedAt = <<now>>
              /\ (before.completed /\ ~after.completed) => after.completedAt = Null
              /\ (before.completed = after.completed) => after.completedAt = before.completedAt]_vars

----------------------------------------------------------------------------
(* Properties of the reminder scan *)

\* a step of the scan's loop, and the queued task it handles
ScanStepTaken == scanPc = "loop" /\ scanQueue' = Tail(scanQueue)

\* C4: the scan never hands a reminder to the channel for a task whose owner
\* has emailNotifications off, and leaves that task's reminderDate as it is.
C4_NoReminderWhenNotificationsOff ==
    [][ScanStepTaken =>
          LET id == Head(scanQueue).id
          IN  ~users[tasks[id].userId].emailNotifications
                 => /\ lastMail' = lastMail
                    /\ tasks'[id].reminderDate = tasks[id].reminderDate]_vars

\* the scan is about to handle a selected task of a user with notifications off
C4_Witness ==
    /\ scanPc = "loop"
    /\ ~users[Head(scanQueue).userId].emailNotifications
    /\ tasks[Head(scanQueue).id].reminderDate # Null

C6_ClearedOnlyAfterDelivery ==
    [][ScanStepTaken =>
          LET id == Head(scanQueue).id
          IN  (tasks[id].reminderDate # Null /\ tasks'[id].reminderDate = Null)
                 => (lastMail' # Null /\ lastMail'[1].outcome = "delivered")]_vars

\* the tasks a scan at the current time must select
InWindow ==
    {t \in DOMAIN tasks :
        /\ ~tasks[t].completed
        /\ tasks[t].reminderDate # Null
        /\ tasks[t].reminderDate[1] - now \in 0..15}

\* C7: a scan at time now selects exactly the incomplete tasks with
\* now <= reminderDate <= now + 15 minutes: a reminder at 09:00 is selected at
\* 08:45, 08:50 and 09:00, and not at 08:40 or 09:01.
C7_SelectsExactlyTheWindow ==
    /\ [](/\ TasksToRemind = InWindow
          /\ \A t \in DOMAIN tasks :
                (~tasks[t].completed /\ tasks[t].reminderDate = <<540>>)
                    => (t \in TasksToRemind <=> now \in {525, 530, 540}))
    /\ [][(scanPc = "idle" /\ scanPc' = "loop")
              => {scanQueue'[i].id : i \in DOMAIN scanQueue'} = InWindow]_vars

\* a scan at 08:45 has selected a task whose reminder is at 09:00
C7_Witness ==
    /\ scanPc = "loop"
    /\ now = 525
    /\ tasks[Head(scanQueue).id].reminderDate = <<540>>

----------------------------------------------------------------------------
(* Properties of the category store *)

\* request r's delete handler has the category as the store holds it
DeleteSeesCategory(r) ==
    /\ creq[r].id \in DOMAIN cats
    /\ Loaded(cats[creq[r].id]) = creq[r].doc

\* a task of user u is filed under the name of category id
Referenced(u, id) ==
    \E t \in DOMAIN tasks : tasks[t].userId = u /\ tasks[t].category = cats[id].name

C9_AtMostOneDefault ==
    \A u \in Users :
        Cardinality({c \in DOMAIN cats : cats[c].userId = u /\ cats[c].isDefault}) <= 1

\* no two categories of one user share a name
UniqueNames ==
    \A c, o \in DOMAIN cats :
        (c # o /\ cats[c].userId = cats[o].userId) => cats[c].name # cats[o].name

\* request r ends with an error while the name it asks for is another
\* category's name
RejectedForName(r) ==
    /\ creq[r].pc # "idle"
    /\ creq'[r].pc = "idle"
    /\ res' \in {400, 500}
    /\ Has(creq[r].body, "name")
    /\ NameTaken(creq[r].user, Val(creq[r].body, "name"), creq[r].id)

\* C10: no two categories of one user ever share a name, and a create or a
\* rename to a name in use is rejected without having changed the store, also
\* when requests interleave between the existence check and the save.
C10_UniqueNamesRejectedUnchanged ==
    /\ []UniqueNames
    /\ [][\A r \in Requests :
             RejectedForName(r) => (cats' = cats /\ ~creq[r].wrote)]_vars

----------------------------------------------------------------------------
(* Properties of the notification jobs *)

\* C11: in each of the three jobs, a store operation that fails while the job
\* processes one task or one user (the task's save in the scan, the user's task
\* query in the daily digest, the user's statistics in the weekly summaries)
\* does not abort the run: the tasks or users after it are still to be processed
C11_FailureKeepsTheRestOfTheRun ==
    [][/\ \A sent \in BOOLEAN :
            ScanStepSaveFails(sent) => scanQueue' = Tail(scanQueue)
       /\ \A sent \in BOOLEAN :
            DailyStep(TRUE, sent) => jobs'["daily"].queue = Tail(jobs["daily"].queue)
       /\ \A sent \in BOOLEAN :
            WeeklyStep(TRUE, sent) => jobs'["weekly"].queue = Tail(jobs["weekly"].queue)]_vars

\* C12: when the channel's send fails in sendTaskReminder,
\* sendTaskDueSoonNotification or sendWeeklySummary, the function returns
\* normally: the job goes on to its next task or user and no exception reaches
\* the job (nothing is logged by the job's catch, the jobs stay scheduled)
C12_SendFailureIsSwallowed ==
    [][/\ ScanStep(FALSE) =>
            /\ scanQueue' = Tail(scanQueue)
            /\ UNCHANGED <<jobLog, scheduled>>
       /\ DailyStep(FALSE, FALSE) =>
            /\ jobs'["daily"].queue = Tail(jobs["daily"].queue)
            /\ UNCHANGED <<jobLog, scheduled>>
       /\ WeeklyStep(FALSE, FALSE) =>
            /\ jobs'["weekly"].queue = Tail(jobs["weekly"].queue)
            /\ UNCHANGED <<jobLog, scheduled>>]_vars

\* the channel failed on u1's digest and the daily job is on to the next user
C12_Witness ==
    /\ lastSent # Null
    /\ lastSent[1].kind = "digest"
    /\ lastSent[1].outcome = "failed"
    /\ jobs["daily"].pc = "loop"
    /\ jobLog = Null

\* C13: a service constructed without mail credentials has its three jobs
\* registered, and each of its send operations returns without handing anything
\* to the channel and without an error, whatever the channel would answer; the
\* same holds, with or without credentials, for a user whose emailNotifications
\* is off and for a due-soon digest with an empty task list
C13_MissingConfigurationIsNoOp ==
    /\ transporter = InitializeEmailTransporter(FALSE) =>
          /\ scheduled = {"scan", "daily", "weekly"}
          /\ \A emailNotifications \in BOOLEAN, sent \in BOOLEAN :
                /\ SendTaskReminder(emailNotifications, sent) = "skipped"
                /\ SendWeeklySummary(emailNotifications, sent) = "skipped"
                /\ \A count \in 0..DigestLimit :
                      SendTaskDueSoonNotification(emailNotifications, count, sent) = "skipped"
          /\ lastMail # Null => lastMail[1].outcome = "skipped"
          /\ lastSent # Null => lastSent[1].outcome = "skipped"
    /\ \A sent \in BOOLEAN :
          /\ SendTaskReminder(FALSE, sent) = "skipped"
          /\ SendWeeklySummary(FALSE, sent) = "skipped"
          /\ \A count \in 0..DigestLimit :
                SendTaskDueSoonNotification(FALSE, count, sent) = "skipped"
          /\ SendTaskDueSoonNotification(TRUE, 0, sent) = "skipped"

\* without credentials the scan has processed a reminder and a job a digest or
\* a summary, and the jobs went on
C13_Witness ==
    /\ transporter = "none"
    /\ lastMail # Null
    /\ lastSent # Null
    /\ lastSent[1].outcome = "skipped"
    /\ scheduled = StartReminderScheduler

\* C14: a store error in a job's query or save is caught by the job's own
\* try/catch: the run ends with the error logged by that catch, nothing escapes
\* the scheduled callback, the job is ready for its next run and the three jobs
\* stay scheduled
C14_StoreErrorEndsOnlyTheRun ==
    [][/\ (ScanStartFails \/ \E sent \in BOOLEAN : ScanStepSaveFails(sent)) =>
            /\ jobLog' = <<[job |-> "scan", error |-> "caught"]>>
            /\ scanPc' = "idle"
            /\ scheduled' = {"scan", "daily", "weekly"}
       /\ (DailyStart(TRUE) \/ \E sent \in BOOLEAN : DailyStep(TRUE, sent)) =>
            /\ jobLog' = <<[job |-> "daily", error |-> "caught"]>>
            /\ jobs'["daily"].pc = "idle"
            /\ scheduled' = {"scan", "daily", "weekly"}
       /\ (WeeklyStart(TRUE) \/ \E sent \in BOOLEAN : WeeklyStep(TRUE, sent)) =>
            /\ jobLog' = <<[job |-> "weekly", error |-> "caught"]>>
            /\ jobs'["weekly"].pc = "idle"
            /\ scheduled' = {"scan", "daily", "weekly"}]_vars

\* a run of the daily job ended in its catch and a later run of the scan is in
\* its loop
C14_Witness ==
    /\ jobLog = <<[job |-> "daily", error |-> "caught"]>>
    /\ scanPc = "loop"
    /\ scheduled = StartReminderScheduler

\* C19: a digest the daily job hands to the channel goes to a user whose
\* emailNotifications is on, lists at least one and at most 10 tasks, and every
\* task it lists is an incomplete task of that user whose dueDate lies within
\* the 24 hours that follow the start of the run
C19_DigestListsTasksDueWithinADay ==
    [][\A sent \in BOOLEAN :
          (/\ DailyStep(FALSE, sent)
           /\ lastSent' # Null
           /\ lastSent' # lastSent
           /\ lastSent'[1].outcome # "skipped") =>
              LET digest == lastSent'[1]
                  run == jobs["daily"].started
              IN  /\ users[digest.to].emailNotifications
                  /\ digest.tasks # {}
                  /\ Cardinality(digest.tasks) <= 10
                  /\ \A t \in digest.tasks :
                        /\ tasks[t].userId = digest.to
                        /\ tasks[t].completed = FALSE
                        /\ tasks[t].dueDate # Null
                        /\ tasks[t].dueDate[1] >= run
                        /\ tasks[t].dueDate[1] <= run + 24 * 60]_vars

----------------------------------------------------------------------------
(* Properties of the routes *)

\* C16: PUT /api/tasks/reorder with taskIds = [id0, id1, ...] is not captured by
\* the earlier-registered PUT '/:id' route: it answers 200, every listed task
\* the caller owns gets order = its index in the list, and every other task
\* keeps its order
C16_ReorderSetsOrderToIndex ==
    [][\A u \in Users, ids \in ReorderLists :
          PutTasksReorder(u, ids) =>
              /\ TaskPutRoutes[FirstMatch(TaskPutRoutes, <<"reorder">>)] # <<":">>
              /\ res' = 200
              /\ DOMAIN tasks' = DOMAIN tasks
              /\ \A t \in DOMAIN tasks :
                    IF tasks[t].userId = u /\ \E i \in DOMAIN ids : ids[i] = t
                    THEN \A i \in DOMAIN ids : ids[i] = t => tasks'[t].order = i - 1
                    ELSE tasks'[t].order = tasks[t].order]_vars

\* the tasks a step created, changed or removed
Touched ==
    {t \in DOMAIN tasks \cup DOMAIN tasks' :
        \/ t \notin DOMAIN tasks
        \/ t \notin DOMAIN tasks'
        \/ tasks'[t] # tasks[t]}

\* a request of user u on the task with this id, by any endpoint that names a task
RequestOnTask(u, id) ==
    \/ GetTask(u, id)
    \/ \E body \in AccessBodies : UpdateTask(u, id, body)
    \/ \E owner \in Users : UpdateTaskOwner(u, id, owner)
    \/ DeleteTask(u, id)
    \/ AddSubtask(u, id)
    \/ \E sid \in 1..MaxSubtasks, body \in [completed : {Absent, <<TRUE>>, <<FALSE>>}] :
          UpdateSubtask(u, id, sid, body)
    \/ \E sid \in 1..MaxSubtasks : DeleteSubtask(u, id, sid)

\* C20: a request of user U to a task or subtask endpoint (get, list, update,
\* delete, add/update/delete subtask, reorder) returns only tasks whose userId
\* is U and changes or removes only tasks whose userId is U; when the id names a
\* task of another user, the get, update, delete and subtask endpoints answer
\* 404 and leave the store unchanged
C20_OnlyOwnTasks ==
    [][\A u \in Users :
          /\ \A id \in TaskIds :
                RequestOnTask(u, id) =>
                    /\ \A t \in Touched : t \in DOMAIN tasks /\ tasks[t].userId = u
                    /\ (id \in DOMAIN tasks /\ tasks[id].userId # u) =>
                          res' = 404 /\ tasks' = tasks
          /\ \A id \in TaskIds :
                (GetTask(u, id) \/ DeleteTask(u, id)
                    \/ \E owner \in Users : UpdateTaskOwner(u, id, owner)) =>
                    \A t \in resTasks' : tasks[t].userId = u
          /\ \A completed \in {Absent, <<"true">>, <<"false">>} :
                ListTasks(u, completed) =>
                    /\ tasks' = tasks
                    /\ \A t \in resTasks' : tasks[t].userId = u
          /\ \A ids \in ReorderLists :
                PutTasksReorder(u, ids) =>
                    \A t \in Touched : t \in DOMAIN tasks /\ tasks[t].userId = u]_vars

\* a request on the task of u1, which holds a subtask, was answered 404: with
\* every id and subtask id of the bounds in use, only a request of u2 is
C20_Witness ==
    /\ res = 404
    /\ DOMAIN tasks = TaskIds
    /\ \A t \in DOMAIN tasks : tasks[t].userId = "u1" /\ Len(tasks[t].subtasks) = MaxSubtasks

----------------------------------------------------------------------------
(* Properties of the statistics *)

\* C15: the streak of a weekly summary is the number of distinct calendar dates
\* on which the user has at least one completed task whose completedAt is not
\* before the window start, seven days before the run: several completions on
\* one date count once, and dates that are not consecutive all count
C15_StreakCountsDistinctDates ==
    [][\A sent \in BOOLEAN :
          WeeklyStep(FALSE, sent) =>
              LET user == Head(jobs["weekly"].queue)
                  windowStart == jobs["weekly"].started - 7 * 24 * 60
                  dates == {day \in 0..90 :
                               \E t \in DOMAIN tasks :
                                  /\ tasks[t].userId = user
                                  /\ tasks[t].completed
                                  /\ tasks[t].completedAt # Null
                                  /\ tasks[t].completedAt[1] >= windowStart
                                  /\ tasks[t].completedAt[1] >= day * 24 * 60
                                  /\ tasks[t].completedAt[1] < (day + 1) * 24 * 60}
              IN  /\ lastSent'[1].to = user
                  /\ lastSent'[1].stats.streak = Cardinality(dates)]_vars

\* a summary over two completions of the window that fall on one date
C15_Witness ==
    /\ lastSent # Null
    /\ lastSent[1].kind = "summary"
    /\ lastSent[1].stats.completedTasks = 2
    /\ lastSent[1].stats.streak = 1

\* C17: a request to an analytics endpoint (overview, productivity, insights,
\* time-tracking) leaves the task store and the category store as they were,
\* whether it answers with its data or with an error
C17_AnalyticsLeaveTheStores ==
    [][\A u \in Users, storeFails \in BOOLEAN :
          (\/ GetOverview(u, storeFails)
           \/ \E period \in Periods : GetProductivity(u, period, storeFails)
           \/ GetInsights(u, storeFails)
           \/ GetTimeTracking(u, storeFails)) =>
              /\ tasks' = tasks
              /\ cats' = cats]_vars

\* an overview was answered and a later analytics request failed, over a store
\* that holds tasks and a category
C17_Witness ==
    /\ overview # Null
    /\ res = 500
    /\ DOMAIN tasks # {}
    /\ DOMAIN cats # {}

\* C18: the overview's completedThisWeek, completedThisMonth and
\* completedThisYear are the numbers of the caller's completed tasks whose
\* completedAt is not before, in turn, the start of the week (Sunday, 00:00) of
\* the request date, the first day of its month and the first day of its year;
\* also on a date whose week began in the previous month or year
C18_OverviewPeriodsStartInTheirOwnPeriod ==
    [][\A u \in Users :
          GetOverview(u, FALSE) =>
              LET day == now \div (24 * 60)
                  weekStart == (day - ((day + 5) % 7)) * 24 * 60
                  monthStart == (IF day < 31 THEN 0 ELSE IF day < 62 THEN 31 ELSE 62) * 24 * 60
                  yearStart == (IF day < 31 THEN 0 - 334 ELSE 31) * 24 * 60
                  CompletedFrom(start) ==
                      Cardinality({t \in DOMAIN tasks :
                                      /\ tasks[t].userId = u
                                      /\ tasks[t].completed
                                      /\ tasks[t].completedAt # Null
                                      /\ tasks[t].completedAt[1] >= start})
                  data == overview'[1].data
              IN  /\ data.completedThisWeek = CompletedFrom(weekStart)
                  /\ data.completedThisMonth = CompletedFrom(monthStart)
                  /\ data.completedThisYear = CompletedFrom(yearStart)]_vars

----------------------------------------------------------------------------
(* Properties of the web client *)

\* C21: the loading flag never stays set: after the mount initializeAuth ends
\* and leaves isLoading false, whether there was no stored token, the token was
\* accepted, or the request failed; a login or register that was started ends,
\* and it ends by AUTH_SUCCESS or AUTH_FAILURE, which leave isLoading false.
\* A provider ends without that only when the page that holds it is left.
C21_LoadingEnds ==
    /\ [][/\ calls.init = "start" /\ calls'.init = "done" => ~auth'.isLoading
          /\ calls.init = "profile" /\ calls'.init = "done" => ~auth'.isLoading
          /\ calls.login # "idle" /\ calls'.login = "idle" /\ calls' # MountedCalls
               => /\ ~auth'.isLoading
                  /\ auth'.isAuthenticated \/ auth'.error # Null]_vars
    /\ (calls.init # "done") ~> (calls.init = "done" \/ calls.reload)
    /\ (calls.login # "idle") ~> (calls.login = "idle" \/ calls.reload)
    /\ auth.isLoading ~> (~auth.isLoading \/ calls.reload)

\* initializeAuth has ended and a login after it has succeeded
C21_Witness ==
    /\ calls.init = "done"
    /\ calls.login = "idle"
    /\ auth.token = <<"t2">>
    /\ auth.isAuthenticated
    /\ ~auth.isLoading

\* C22 as stated: ProtectedRoute renders its children exactly with isLoading
\* false and isAuthenticated true, else the spinner while loading or the
\* redirect to /login; PublicRoute renders its children exactly with isLoading
\* false and isAuthenticated false, and in every other state it redirects to
\* /dashboard; no protected content with isAuthenticated false.
C22_PublicRouteElseRedirects ==
    /\ ProtectedRoute(auth) =
         IF ~auth.isLoading /\ auth.isAuthenticated THEN "children"
         ELSE IF auth.isLoading THEN "LoadingSpinner" ELSE "/login"
    /\ PublicRoute(auth) =
         IF ~auth.isLoading /\ ~auth.isAuthenticated THEN "children" ELSE "/dashboard"
    /\ ~auth.isAuthenticated => ProtectedRoute(auth) # "children" /\ withAuth(auth) # "Component"

\* C22, amended: as stated, except that PublicRoute, like ProtectedRoute, shows
\* the spinner while isLoading is true and redirects to /dashboard only with
\* isLoading false and isAuthenticated true.
C22_GuardsRenderChildrenOnlyWhenSettled ==
    /\ ProtectedRoute(auth) =
         IF ~auth.isLoading /\ auth.isAuthenticated THEN "children"
         ELSE IF auth.isLoading THEN "LoadingSpinner" ELSE "/login"
    /\ PublicRoute(auth) =
         IF ~auth.isLoading /\ ~auth.isAuthenticated THEN "children"
         ELSE IF auth.isLoading THEN "LoadingSpinner" ELSE "/dashboard"
    /\ withAuth(auth) = "Component" => ~auth.isLoading /\ auth.isAuthenticated
    /\ ~auth.isAuthenticated => ProtectedRoute(auth) # "children" /\ withAuth(auth) # "Component"

\* a logged-in state: the protected route renders, the public one redirects
C22_Witness ==
    /\ auth.isAuthenticated
    /\ ~auth.isLoading
    /\ ProtectedRoute(auth) = "children"
    /\ PublicRoute(auth) = "/dashboard"

\* C29: in every state of the provider isAuthenticated true means user and
\* token are both set, and isAuthenticated false means both are null, also
\* when updateProfile or refreshUser dispatch AUTH_UPDATE_PROFILE after a
\* logout.
C29_AuthenticatedIffUserAndToken ==
    /\ auth.isAuthenticated => auth.user # Null /\ auth.token # Null
    /\ ~auth.isAuthenticated => auth.user = Null /\ auth.token = Null

\* no request of the provider is in flight and the page is not being left
NoRequestInFlight ==
    /\ calls.init = "done"
    /\ calls.login = "idle"
    /\ calls.profile = "idle"
    /\ ~calls.reload

\* C30: once no auth request is in flight, the reducer state and localStorage
\* agree: isAuthenticated is true exactly when localStorage holds a token, and
\* then that token is state.token, whatever the interleaving of initializeAuth,
\* login, register and logout was.
C30_StateAndStorageAgree ==
    NoRequestInFlight =>
        /\ auth.isAuthenticated <=> storage.token # Null
        /\ auth.isAuthenticated => storage.token = auth.token

----------------------------------------------------------------------------
(* Properties of the concurrent and the paged requests *)

\* C25: a stored task keeps the userId it was created with under every
\* request, whatever the body of a PUT /api/tasks/:id holds, and a created
\* task belongs to the user who sent the request.
C25_UserIdNeverChanges ==
    [][/\ \A t \in DOMAIN tasks \cap DOMAIN tasks' : tasks'[t].userId = tasks[t].userId
       /\ \A u \in Users, body \in AccessBodies :
            CreateTask(u, body) => \A t \in DOMAIN tasks' \ DOMAIN tasks : tasks'[t].userId = u]_vars

\* C27: when a category deletion succeeds, no task of that user is filed under
\* the deleted category's name, also when a task was created or moved between
\* the deletion's count and its delete.
C27_DeletionLeavesNoTaskInCategory ==
    [][\A r \in Requests :
          DeleteRemove(r) =>
              ~\E t \in DOMAIN tasks' : /\ tasks'[t].userId = creq[r].user
                                        /\ tasks'[t].category = creq[r].doc.name]_vars

\* C28: every overview answer has pendingTasks >= 0, completedTasks <=
\* totalTasks and a completionRate from 0 to 100 that is 0 when totalTasks is
\* 0, also when tasks are created, deleted or completed between the handler's
\* count queries.
C28_OverviewCountsAreConsistent ==
    overview # Null =>
        LET data == overview[1].data
        IN  /\ data.pendingTasks >= 0
            /\ data.completedTasks <= data.totalTasks
            /\ data.completionRate >= 0
            /\ data.completionRate <= 100
            /\ data.totalTasks = 0 => data.completionRate = 0

\* C24: the insights' weeklyCompleted is the number of the caller's tasks
\* completed in the seven days before the request, and the 'Most Productive
\* Category' insight names the category with the most tasks the caller
\* completed in the thirty days before the request, with that number; there
\* is no such insight when nothing was completed in those thirty days.
C24_InsightsCountTrailingDays ==
    [][\A u \in Users :
          GetInsights(u, FALSE) =>
              LET data == insights'[1]
                  done == CompletedSince(u, now - 30 * MinutesPerDay)
                  count(c) == Cardinality({t \in done : tasks[t].category = c})
              IN  /\ data.weeklyCompleted = CountCompletedSince(u, now - 7 * MinutesPerDay)
                  /\ IF done = {} THEN data.categoryStats = <<>>
                     ELSE /\ Len(data.categoryStats) = 1
                          /\ data.categoryStats[1].count = count(data.categoryStats[1]._id)
                          /\ \A t \in done : count(tasks[t].category) <= data.categoryStats[1].count]_vars

\* the tasks of the pages 1..n one after the other
RECURSIVE PagesInOrder(_, _)
PagesInOrder(pages, n) == IF n = 0 THEN <<>> ELSE PagesInOrder(pages, n - 1) \o pages[n]

\* C23: page p with limit l holds the tasks at the positions (p-1)*l .. p*l-1
\* of the caller's filtered, sorted list; totalTasks is the size of that list,
\* totalPages is ceil(totalTasks / l), hasNextPage holds iff p < totalPages and
\* hasPrevPage iff p > 1; over an unchanged store the pages 1..totalPages
\* together hold every task of the list exactly once.
C23_PagesPartitionTheList ==
    listing # Null =>
        LET l == listing[1]
            own == ListFilter(l.user)
            p == l.pagination.currentPage
            all == PagesInOrder(l.pages, l.pagination.totalPages)
        IN  /\ \E list \in Sorted(own, l.sortOrder) :
                  l.pages[p] = SkipLimit(list, (p - 1) * l.limit, l.limit)
            /\ l.pagination.totalTasks = Cardinality(own)
            /\ l.pagination.totalPages = Ceil(Cardinality(own), l.limit)
            /\ l.pagination.hasNextPage <=> p < l.pagination.totalPages
            /\ l.pagination.hasPrevPage <=> p > 1
            /\ (1..l.pagination.totalPages) \subseteq DOMAIN l.pages =>
                  /\ Len(all) = Cardinality(own)
                  /\ \A t \in own : \E i \in 1..Len(all) : all[i] = t

\* C26: with the scan on its schedule, the channel configured and nothing
\* failing, every reminder that a request set to a date still to come is
\* dispatched while the task stays incomplete and its owner has
\* emailNotifications on.  A scan selects only dates from its own start on, so
\* the reminder is dispatched only if no incomplete task is ever left with a
\* reminderDate that has passed and that no running scan holds.
C26_NoReminderIsMissed ==
    \A t \in DOMAIN tasks :
        (/\ tasks[t].completed = FALSE
         /\ users[tasks[t].userId].emailNotifications
         /\ tasks[t].reminderDate # Null
         /\ tasks[t].reminderDate[1] < now)
            => \E i \in 1..Len(scanQueue) : scanQueue[i].id = t

====
